---- MODULE Spec2Model ----
(***************************************************************************)
(* Vector-storage extension of the chat front end: the chat synchronizer   *)
(* (synchronizeChat), its two callers (the module worker fired by chat     *)
(* events and the vectorize-all loop), the hash delta, and the remote      *)
(* vector store the requests act on.                                       *)
(*                                                                         *)
(* JavaScript runs each piece of code between two awaits to completion, so *)
(* every action below is one such piece: it starts where a promise         *)
(* resolves and ends at the next await (or at the return).                 *)
(*                                                                         *)
(* A message text is modelled by a natural number: the string of that many *)
(* copies of one letter (0 is the empty string).  Macro substitution       *)
(* (substituteParams) leaves such a text as it is.                         *)
(***************************************************************************)
EXTENDS Integers, Sequences, FiniteSets, TLC

VARIABLES
    settings,       \* the extension settings read by the synchronizer
    chats,          \* chat id -> transcript (context.chat of that chat)
    currentChatId,  \* getCurrentChatId()
    is_send_press,  \* a generation is in progress
    remote,         \* collection id -> the hashes the vector store holds, in list order
    syncBlocked,    \* the re-entrancy guard
    call,           \* caller -> its synchronizeChat invocation
    loop,           \* the vectorize-all loop
    delta,          \* a delta computation on its own: inputs and result
    client,         \* the calls made to the remote vector client, and what each did
    extension_prompts, \* prompt slot (tag) -> the text set by setExtensionPrompt
    collections,    \* file and world collection id -> the hashes the vector store holds
    rc,             \* the rearrangeChat invocation (the generation interceptor)
    bulk,           \* the onVectorizeAllFilesClick invocation
    files,          \* the chats directory of the server: file name -> content
    http,           \* the request the chats router is handling, and the responses sent
    power_user      \* the instruct mode: its settings, the presets, the last auto-select

\* the state of the server's chats router and of the instruct mode
hostVars == <<files, http, power_user>>

\* the state of the vector client, of the retrieval and of the file operations alone
extensionVars == <<client, extension_prompts, collections, rc, bulk>>

\* the state of the chat synchronizer and of its callers
syncVars == <<settings, chats, currentChatId, is_send_press, remote,
              syncBlocked, call, loop, delta>>

\* all the state but that of the chat synchronizer
retrievalVars == <<client, extension_prompts, collections, rc, bulk, hostVars>>

vars == <<settings, chats, currentChatId, is_send_press, remote,
          syncBlocked, call, loop, delta,
          client, extension_prompts, collections, rc, bulk, hostVars>>

(***************************************************************************)
(* Bounds and program constants                                            *)
(***************************************************************************)
\* const batchSize = 5 of onVectorizeAllClick, and the default of synchronizeChat
batchSize == 5

\* longest chat transcript considered
MaxChatLen == 6

\* longest chat transcript considered while two callers run concurrently
MaxConcLen == 2

\* longest transcript, entry list and remote hash list of a delta computed alone
MaxDeltaLen == 3

\* polls of waitUntilCondition that may find the condition false before it times out
MaxPolls == 1

ChatIds == {"chatA", "chatB"}

\* getCurrentChatId() when no chat is open
NoChat == ""

Callers == {"vec", "worker"}

(***************************************************************************)
(* Sequences                                                               *)
(***************************************************************************)
Includes(seq, x) == \E i \in DOMAIN seq : seq[i] = x

Range(seq) == {seq[i] : i \in DOMAIN seq}

Slice(seq, n) == SubSeq(seq, 1, IF n < Len(seq) THEN n ELSE Len(seq))

(***************************************************************************)
(* Hashing and chunking                                                    *)
(***************************************************************************)
\* getStringHash of utils.js: a deterministic digest of the text
calculateHash(str) == (str * str * 7 + str * 3 + 11) % 97

\* the memoised hash: the cache returns what calculateHash returned
getStringHash(str) == calculateHash(str)

\* splitRecursive of utils.js on a one-letter text: pieces of at most `length`
RECURSIVE splitRecursive(_, _)
splitRecursive(text, length) ==
    IF length <= 0 \/ text <= length THEN <<text>>
    ELSE <<length>> \o splitRecursive(text - length, length)

\* the chunks of one item: each keeps the item's hash and index
ChunksOf(item, length) ==
    LET chunks == splitRecursive(item.text, length)
    IN  [k \in 1..Len(chunks) |-> [item EXCEPT !.text = chunks[k]]]

RECURSIVE ChunkAll(_, _)
ChunkAll(items, length) ==
    IF items = << >> THEN << >>
    ELSE ChunksOf(Head(items), length) \o ChunkAll(Tail(items), length)

splitByChunks(items) ==
    IF settings.message_chunk_size <= 0 THEN items
    ELSE ChunkAll(items, settings.message_chunk_size)

(***************************************************************************)
(* The hash delta                                                          *)
(***************************************************************************)
\* context.chat.filter(x => !x.is_system).map(x => ({text, hash, index}))
HashedMessages(chat) ==
    LET idx == SelectSeq([i \in 1..Len(chat) |-> i], LAMBDA i : ~chat[i].is_system)
    IN  [k \in 1..Len(idx) |->
            [text  |-> chat[idx[k]].mes,
             hash  |-> getStringHash(chat[idx[k]].mes),
             index |-> idx[k] - 1]]

NewVectorItems(hashedMessages, hashesInCollection) ==
    SelectSeq(hashedMessages, LAMBDA x : ~Includes(hashesInCollection, x.hash))

\* faulty variant: the negation of line 255 is lost, the hashes still in use are deleted
DeletedHashesInUse(hashedMessages, hashesInCollection) ==
    SelectSeq(hashesInCollection,
              LAMBDA x : \E i \in DOMAIN hashedMessages : hashedMessages[i].hash = x)

DeletedHashes(hashedMessages, hashesInCollection) ==
    SelectSeq(hashesInCollection,
              LAMBDA x : ~(\E i \in DOMAIN hashedMessages : hashedMessages[i].hash = x))

\* the delta of one world of activateWorldInfo: entries carry uid and content
NewEntries(entries, hashesInCollection) ==
    SelectSeq(entries, LAMBDA x : ~Includes(hashesInCollection, getStringHash(x.content)))

DeletedEntryHashes(entries, hashesInCollection) ==
    SelectSeq(hashesInCollection,
              LAMBDA x : ~(\E i \in DOMAIN entries : getStringHash(entries[i].content) = x))

\* faulty variant: the batch is one item short
ChunkedBatchShort(newVectorItems, size) == splitByChunks(Slice(newVectorItems, size - 1))

\* faulty variant: the batch is not cut to batchSize
ChunkedBatchAll(newVectorItems, size) == splitByChunks(newVectorItems)

\* line 259
ChunkedBatch(newVectorItems, size) == splitByChunks(Slice(newVectorItems, size))

(***************************************************************************)
(* The remote vector store (the /api/vector endpoints)                     *)
(***************************************************************************)
RECURSIVE StoreInsert(_, _)
StoreInsert(stored, items) ==
    IF items = << >> THEN stored
    ELSE StoreInsert(IF Includes(stored, Head(items).hash) THEN stored
                     ELSE Append(stored, Head(items).hash),
                     Tail(items))

StoreDelete(stored, hashes) == SelectSeq(stored, LAMBDA h : ~Includes(hashes, h))

(***************************************************************************)
(* Text summarization (generateRaw, the extras /api/summarize endpoint):   *)
(* the summary of a text is a shorter text                                 *)
(***************************************************************************)
generateRaw(text) == (text + 1) \div 2

(***************************************************************************)
(* One synchronizeChat invocation per caller                               *)
(***************************************************************************)
BlankCall ==
    [pc |-> "idle", polls |-> 0, startedBlocked |-> FALSE, chatId |-> NoChat,
     hashedMessages |-> << >>, hashesInCollection |-> << >>, sumIdx |-> 0,
     newVectorItems |-> << >>, deletedHashes |-> << >>,
     reqs |-> << >>, result |-> << >>, exit |-> ""]

Request(kind, coll, items, hashes) ==
    [kind |-> kind, coll |-> coll, items |-> items, hashes |-> hashes]

\* a return statement: the promise of the call resolves with `value`, and the
\* locals of the call are gone
Returned(rec, value, exit) ==
    [BlankCall EXCEPT !.pc = "returned", !.result = <<value>>, !.exit = exit]

\* lines 226-231: the call up to its first await
Entry ==
    IF ~settings.enabled_chats THEN Returned(BlankCall, -1, "disabled")
    ELSE [BlankCall EXCEPT !.pc = "wait", !.startedBlocked = syncBlocked]

\* faulty variant: the value returned is what is left after this batch
ReturnLeftAfterBatch(rec) ==
    Returned(rec, Len(rec.newVectorItems) - Len(Slice(rec.newVectorItems, batchSize)), "ok")

\* line 270
ReturnRemaining(rec) == Returned(rec, Len(rec.newVectorItems) - batchSize, "ok")

\* faulty variant: the stale hashes are never deleted
ReturnWithoutDelete(rec) == ReturnRemaining(rec)

\* faulty variant: the delete request names the chat current when it is sent
DeleteFromCurrentChat(rec) ==
    IF Len(rec.deletedHashes) > 0
    THEN [rec EXCEPT !.pc = "delete",
                     !.reqs = Append(@, Request("delete", currentChatId, << >>, rec.deletedHashes))]
    ELSE ReturnRemaining(rec)

\* lines 265-270: the delete request, or the return when nothing is stale
DeleteOrReturn(rec) ==
    IF Len(rec.deletedHashes) > 0
    THEN [rec EXCEPT !.pc = "delete",
                     !.reqs = Append(@, Request("delete", rec.chatId, << >>, rec.deletedHashes))]
    ELSE ReturnRemaining(rec)

\* faulty variant: the stale hashes are deleted first, and the insert is skipped
DeleteBeforeInsert(rec) ==
    IF Len(rec.deletedHashes) > 0 THEN DeleteOrReturn(rec)
    ELSE IF Len(rec.newVectorItems) > 0
    THEN [rec EXCEPT !.pc = "insert",
                     !.reqs = Append(@, Request("insert", rec.chatId,
                                 ChunkedBatch(rec.newVectorItems, batchSize), << >>))]
    ELSE ReturnRemaining(rec)

\* lines 258-263: the insert request of the first batchSize new items, chunked
InsertOrContinue(rec) ==
    IF Len(rec.newVectorItems) > 0
    THEN [rec EXCEPT !.pc = "insert",
                     !.reqs = Append(@, Request("insert", rec.chatId,
                                 ChunkedBatch(rec.newVectorItems, batchSize), << >>))]
    ELSE DeleteOrReturn(rec)

\* lines 254-255: the delta, then the call up to its next await or its return
AfterSummarize(rec) ==
    InsertOrContinue(
        [rec EXCEPT !.newVectorItems = NewVectorItems(rec.hashedMessages, rec.hashesInCollection),
                    !.deletedHashes  = DeletedHashes(rec.hashedMessages, rec.hashesInCollection)])

\* lines 271-296: the catch block
Caught(rec) == Returned(rec, -1, "error")

\* faulty variant: line 238 is missing, the guard is never taken
GuardNeverTaken(rec) == FALSE

\* faulty variant: the finally block is missing, the guard is never released
GuardNeverReleased(rec) == TRUE

\* lines 237-238 and 297-299: the guard is held inside the try, and the finally
\* block releases it when the call returns
Guard(rec) == rec.pc # "returned"

\* faulty variant: the hash is taken again from the summary
SummarizedRehashed(item) ==
    [item EXCEPT !.text = generateRaw(@), !.hash = getStringHash(generateRaw(item.text))]

\* lines 195 and 208: the text of the element becomes its summary
Summarized(item) == [item EXCEPT !.text = generateRaw(@)]

\* the summarize request of element sumIdx (lines 176-201, 207-209)
SummarizeRequest(rec, k) ==
    [rec EXCEPT !.pc = "summarize", !.sumIdx = k,
                !.reqs = Append(@, Request("summarize", settings.summary_source,
                                            <<rec.hashedMessages[k]>>, << >>))]

(***************************************************************************)
(* synchronizeChat, one action per piece between two awaits                *)
(***************************************************************************)
\* faulty variant: the wait looks at the generation flag only
WaitConditionIgnoresGuard == ~is_send_press

\* line 231: the condition waitUntilCondition polls
WaitCondition == ~syncBlocked /\ ~is_send_press

\* line 231: a poll of waitUntilCondition finds the condition false
PollBlocked(c) ==
    /\ call[c].pc = "wait"
    /\ call[c].polls < MaxPolls
    /\ ~WaitCondition
    /\ call' = [call EXCEPT ![c].polls = @ + 1]
    /\ UNCHANGED <<settings, chats, currentChatId, is_send_press, remote, syncBlocked, loop, delta, retrievalVars>>

\* faulty variant: the return of the timed-out wait runs the finally block too
WaitTimeoutReleases(c) ==
    /\ call[c].pc = "wait"
    /\ call[c].polls = MaxPolls
    /\ call' = [call EXCEPT ![c] = [Returned(@, -1, "blocked") EXCEPT
                                        !.startedBlocked = call[c].startedBlocked]]
    /\ syncBlocked' = FALSE
    /\ UNCHANGED <<settings, chats, currentChatId, is_send_press, remote, loop, delta, retrievalVars>>

\* lines 232-235: waitUntilCondition timed out
WaitTimeout(c) ==
    /\ call[c].pc = "wait"
    /\ call[c].polls = MaxPolls
    /\ call' = [call EXCEPT ![c] = [Returned(@, -1, "blocked") EXCEPT
                                        !.startedBlocked = call[c].startedBlocked]]
    /\ UNCHANGED <<settings, chats, currentChatId, is_send_press, remote, syncBlocked, loop, delta, retrievalVars>>

\* lines 231, 237-248: a poll finds the condition true; the guard is taken, the
\* chat is read and the list request is sent
Acquire(c) ==
    /\ call[c].pc = "wait"
    /\ call[c].polls < MaxPolls
    /\ WaitCondition
    /\ LET rec == IF currentChatId = NoChat
                  THEN Returned(call[c], -1, "nochat")
                  ELSE [call[c] EXCEPT
                          !.pc = "list",
                          !.chatId = currentChatId,
                          !.hashedMessages = HashedMessages(chats[currentChatId]),
                          !.reqs = Append(@, Request("list", currentChatId, << >>, << >>))]
       IN  /\ call' = [call EXCEPT ![c] = rec]
           /\ syncBlocked' = Guard(rec)
    /\ UNCHANGED <<settings, chats, currentChatId, is_send_press, remote, loop, delta, retrievalVars>>

\* line 248: the list request answers
ListResponse(c, ok) ==
    /\ call[c].pc = "list"
    /\ LET got == [call[c] EXCEPT !.hashesInCollection = remote[call[c].chatId]]
           rec == IF ~ok THEN Caught(call[c])
                  ELSE IF settings.summarize /\ Len(got.hashedMessages) > 0
                  THEN SummarizeRequest(got, 1)
                  ELSE AfterSummarize(got)
       IN  /\ call' = [call EXCEPT ![c] = rec]
           /\ syncBlocked' = Guard(rec)
    /\ UNCHANGED <<settings, chats, currentChatId, is_send_press, remote, loop, delta, retrievalVars>>

\* lines 250-252: one summarize request answers
SummarizeResponse(c, ok) ==
    /\ call[c].pc = "summarize"
    /\ LET k    == call[c].sumIdx
           done == IF ok
                   THEN [call[c] EXCEPT !.hashedMessages[k] = Summarized(@)]
                   ELSE call[c]
           rec  == IF ~ok /\ settings.summary_source = "main" THEN Caught(call[c])
                   ELSE IF k < Len(done.hashedMessages) THEN SummarizeRequest(done, k + 1)
                   ELSE AfterSummarize(done)
       IN  /\ call' = [call EXCEPT ![c] = rec]
           /\ syncBlocked' = Guard(rec)
    /\ UNCHANGED <<settings, chats, currentChatId, is_send_press, remote, loop, delta, retrievalVars>>

\* faulty variant: a failed insert is swallowed and the call goes on to the delete
InsertResponseSwallowed(c, ok) ==
    /\ call[c].pc = "insert"
    /\ LET req == call[c].reqs[Len(call[c].reqs)]
           rec == DeleteOrReturn(call[c])
       IN  /\ call' = [call EXCEPT ![c] = rec]
           /\ syncBlocked' = Guard(rec)
           /\ remote' = IF ok
                        THEN [remote EXCEPT ![req.coll] = StoreInsert(@, req.items)]
                        ELSE remote
    /\ UNCHANGED <<settings, chats, currentChatId, is_send_press, loop, delta, retrievalVars>>

\* line 262: the insert request answers
InsertResponse(c, ok) ==
    /\ call[c].pc = "insert"
    /\ LET req == call[c].reqs[Len(call[c].reqs)]
           rec == IF ok THEN DeleteOrReturn(call[c]) ELSE Caught(call[c])
       IN  /\ call' = [call EXCEPT ![c] = rec]
           /\ syncBlocked' = Guard(rec)
           /\ remote' = IF ok
                        THEN [remote EXCEPT ![req.coll] = StoreInsert(@, req.items)]
                        ELSE remote
    /\ UNCHANGED <<settings, chats, currentChatId, is_send_press, loop, delta, retrievalVars>>

\* line 266: the delete request answers
DeleteResponse(c, ok) ==
    /\ call[c].pc = "delete"
    /\ LET req == call[c].reqs[Len(call[c].reqs)]
           rec == IF ok THEN ReturnRemaining(call[c]) ELSE Caught(call[c])
       IN  /\ call' = [call EXCEPT ![c] = rec]
           /\ syncBlocked' = Guard(rec)
           /\ remote' = IF ok
                        THEN [remote EXCEPT ![req.coll] = StoreDelete(@, req.hashes)]
                        ELSE remote
    /\ UNCHANGED <<settings, chats, currentChatId, is_send_press, loop, delta, retrievalVars>>

(***************************************************************************)
(* The module worker: a chat event calls synchronizeChat()                 *)
(***************************************************************************)
WorkerUpdate ==
    /\ call["worker"].pc = "idle"
    /\ call' = [call EXCEPT !["worker"] = Entry]
    /\ UNCHANGED <<settings, chats, currentChatId, is_send_press, remote, syncBlocked, loop, delta, retrievalVars>>

WorkerDone ==
    /\ call["worker"].pc = "returned"
    /\ call' = [call EXCEPT !["worker"] = BlankCall]
    /\ UNCHANGED <<settings, chats, currentChatId, is_send_press, remote, syncBlocked, loop, delta, retrievalVars>>

(***************************************************************************)
(* The vectorize-all loop                                                  *)
(***************************************************************************)
IdleLoop ==
    [pc |-> "idle", chatId |-> NoChat, finished |-> FALSE, progress |-> FALSE,
     remaining |-> << >>, calls |-> 0, newAtStart |-> 0, error |-> ""]

\* lines 143-147: the loop ends, the error that ended it is logged and the progress
\* indicator is hidden
LoopEnd(lp) == [IdleLoop EXCEPT !.error = lp.error]

\* faulty variant: the loop does not look at is_send_press
LoopTurnIgnoresGeneration(lp) ==
    /\ loop' = [lp EXCEPT !.calls = @ + 1]
    /\ call' = [call EXCEPT !["vec"] = Entry]

\* lines 116-123: one turn of the loop up to its await
LoopTurn(lp) ==
    IF is_send_press
    THEN /\ loop' = LoopEnd([lp EXCEPT !.error = "Message generation is in progress."])
         /\ call' = [call EXCEPT !["vec"] = BlankCall]
    ELSE /\ loop' = [lp EXCEPT !.calls = @ + 1]
         /\ call' = [call EXCEPT !["vec"] = Entry]

\* bookkeeping for the convergence bound, not program state: the number of new
\* items of the current chat when the run starts
NewAtStart ==
    Len(NewVectorItems(HashedMessages(chats[currentChatId]), remote[currentChatId]))

\* lines 96-123: the click on "Vectorize All"
VecClick ==
    /\ loop.pc = "idle"
    /\ IF ~settings.enabled_chats
       THEN /\ loop' = IdleLoop
            /\ call' = call
       ELSE IF currentChatId = NoChat
       THEN /\ loop' = IdleLoop
            /\ call' = call
       ELSE LoopTurn([IdleLoop EXCEPT !.pc = "running", !.chatId = currentChatId,
                                      !.progress = TRUE,
                                      !.newAtStart = NewAtStart])
    /\ UNCHANGED <<settings, chats, currentChatId, is_send_press, remote, syncBlocked, delta, retrievalVars>>

\* lines 123-142: the awaited call returned
VecResume ==
    /\ loop.pc = "running"
    /\ call["vec"].pc = "returned"
    /\ LET remaining == call["vec"].result[1]
           lp == [loop EXCEPT !.remaining = <<remaining>>, !.finished = remaining <= 0]
       IN  IF lp.chatId # currentChatId
           THEN /\ loop' = LoopEnd([lp EXCEPT !.error = "Chat changed"])
                /\ call' = [call EXCEPT !["vec"] = BlankCall]
           ELSE IF lp.finished
           THEN /\ loop' = LoopEnd(lp)
                /\ call' = [call EXCEPT !["vec"] = BlankCall]
           ELSE LoopTurn(lp)
    /\ UNCHANGED <<settings, chats, currentChatId, is_send_press, remote, syncBlocked, delta, retrievalVars>>

(***************************************************************************)
(* The user and the generation: outside the extension                      *)
(***************************************************************************)
SendPress ==
    /\ is_send_press' = ~is_send_press
    /\ UNCHANGED <<settings, chats, currentChatId, remote, syncBlocked, call, loop, delta, retrievalVars>>

SwitchChat(id) ==
    /\ id # currentChatId
    /\ currentChatId' = id
    /\ UNCHANGED <<settings, chats, is_send_press, remote, syncBlocked, call, loop, delta, retrievalVars>>

(***************************************************************************)
(* Initial states                                                          *)
(***************************************************************************)
Message(text, is_system) == [mes |-> text, is_system |-> is_system]

\* transcripts of at most n messages: the texts all different ("distinct"), or
\* cycling through two texts ("repeated"); at most one system message, the second
Transcripts(n, shapes) ==
    {[i \in 1..k |-> Message(IF d = "distinct" THEN i ELSE 1 + (i % 2), i = s)] :
        k \in 0..n, d \in shapes, s \in {0, 2}}

\* a hash that no message of a transcript has
StaleHash == getStringHash(MaxChatLen + 3)

RemotePool ==
    {<< >>,
     <<getStringHash(MaxChatLen + 4), StaleHash>>,
     <<StaleHash, getStringHash(1)>>,
     <<getStringHash(MaxChatLen + 4), getStringHash(2), StaleHash>>}

\* settings.message_chunk_size as shipped (line 60)
DefaultChunkSize == 400

SettingsPool(chunkSizes) ==
    {st \in [enabled_chats : BOOLEAN, summarize : BOOLEAN,
             summary_source : {"main", "extras"}, message_chunk_size : chunkSizes] :
        ~st.summarize => st.summary_source = "main"}

\* the vector client before any call: no secret stored, no server URL set, no
\* module of the Extras API loaded
NoClientCalls ==
    [secret_state |-> {}, server_urls |-> {}, modules |-> {}, calls |-> << >>]

\* a prompt slot holding the empty string
EmptyPrompt == [template |-> "", text |-> << >>]

\* setExtensionPrompt(tag, '', ...): both slots of the extension cleared
ClearedPrompts == [tag \in {"3_vectors", "4_vectors_data_bank"} |-> EmptyPrompt]

\* the collection ids of the Data Bank files and of the worlds of the knowledge base
CollectionIds == {"file_1", "file_2", "world_1", "world_2"}

\* rearrangeChat not running: its locals empty. input is the chat array as it was
\* handed over, chat the array as it is now; reqs lists the requests sent
IdleRc ==
    [pc |-> "idle", input |-> << >>, chat |-> << >>, dataBank |-> << >>, fileIdx |-> 0,
     ids |-> << >>, queryResults |-> << >>, entries |-> << >>, worldIdx |-> 0,
     msgIdx |-> 0, reqs |-> << >>,
     queryHashes |-> << >>, queriedMessages |-> << >>, activated |-> << >>, toast |-> FALSE]

\* onVectorizeAllFilesClick not running.  attempted lists the files the loop has
\* reached, failed the positions of those vectorizeFile returned false for, error
\* what the catch of the handler logged, toast the report shown
IdleBulk ==
    [pc |-> "idle", dataBank |-> << >>, chatAttachments |-> << >>, allFiles |-> << >>,
     idx |-> 0, allSuccess |-> TRUE, attempted |-> << >>, failed |-> {},
     error |-> "", toast |-> ""]

\* no file of the chats directory exists
NoFile == [exists |-> FALSE]

FileNames == {"a.jsonl", "b.jsonl", "imported.jsonl"}

\* the router has no request in hand
IdleHttp == [pc |-> "idle", request |-> [route |-> ""], responses |-> << >>]

\* the instruct mode before autoSelectInstructPreset is called: power_user and
\* instruct_presets, then the model id of the last call, the preset selected before
\* it, the selections it made and the value it returned
IdleInstruct ==
    [instruct |-> [enabled |-> FALSE, preset |-> "", bind_to_context |-> FALSE],
     context |-> [preset |-> ""], default_instruct |-> "", presets |-> << >>,
     modelId |-> "", before |-> "", selected |-> << >>, result |-> << >>]

\* the server and the instruct mode at rest
HostAtRest ==
    /\ files = [name \in FileNames |-> NoFile]
    /\ http = IdleHttp
    /\ power_user = IdleInstruct

\* the retrieval and the file operations at rest
RetrievalAtRest ==
    /\ client = NoClientCalls
    /\ extension_prompts = ClearedPrompts
    /\ collections = [id \in CollectionIds |-> << >>]
    /\ rc = IdleRc
    /\ bulk = IdleBulk
    /\ HostAtRest

NoDelta == [kind |-> "", local |-> << >>, hashes |-> << >>,
            toInsert |-> << >>, toDelete |-> << >>]

InitWith(chatsA, remotesA, settingsPool) ==
    /\ settings \in settingsPool
    /\ \E a \in chatsA :
          chats = [id \in ChatIds |-> IF id = "chatA" THEN a ELSE <<Message(2, FALSE)>>]
    /\ \E r \in remotesA :
          remote = [id \in ChatIds |-> IF id = "chatA" THEN r ELSE << >>]
    /\ currentChatId = "chatA"
    /\ is_send_press = FALSE
    /\ syncBlocked = FALSE
    /\ call = [c \in Callers |-> BlankCall]
    /\ loop = IdleLoop
    /\ delta = NoDelta
    /\ RetrievalAtRest

(***************************************************************************)
(* Spec: the two callers, the generation and the user, short transcripts   *)
(***************************************************************************)
Init ==
    InitWith(Transcripts(MaxConcLen, {"distinct"}),
             {<< >>, <<StaleHash, getStringHash(1)>>},
             SettingsPool({DefaultChunkSize}))

Next ==
    \/ \E c \in Callers : PollBlocked(c)
    \/ \E c \in Callers : WaitTimeout(c)
    \/ \E c \in Callers : Acquire(c)
    \/ \E c \in Callers, ok \in BOOLEAN : ListResponse(c, ok)
    \/ \E c \in Callers, ok \in BOOLEAN : SummarizeResponse(c, ok)
    \/ \E c \in Callers, ok \in BOOLEAN : InsertResponse(c, ok)
    \/ \E c \in Callers, ok \in BOOLEAN : DeleteResponse(c, ok)
    \/ WorkerUpdate
    \/ WorkerDone
    \/ VecClick
    \/ VecResume
    \/ SendPress
    \/ \E id \in ChatIds \cup {NoChat} : SwitchChat(id)

Spec == Init /\ [][Next]_vars

(***************************************************************************)
(* SpecLive: the two callers on a chat that needs an insert and a delete,  *)
(* summarization on; every request sent is answered in the end (by a       *)
(* response or by a failure)                                               *)
(***************************************************************************)
InitLive ==
    InitWith({t \in Transcripts(MaxConcLen, {"distinct"}) :
                 Len(t) = MaxConcLen /\ \A i \in DOMAIN t : ~t[i].is_system},
             {<<StaleHash, getStringHash(1)>>},
             {st \in SettingsPool({DefaultChunkSize}) : st.enabled_chats /\ st.summarize})

Answer(c) ==
    \E ok \in BOOLEAN :
        \/ ListResponse(c, ok)
        \/ SummarizeResponse(c, ok)
        \/ InsertResponse(c, ok)
        \/ DeleteResponse(c, ok)

SpecLive == InitLive /\ [][Next]_vars /\ \A c \in Callers : WF_vars(Answer(c))

(***************************************************************************)
(* SpecLoop: the vectorize-all loop alone on a fixed chat, long            *)
(* transcripts, requests that may fail                                     *)
(***************************************************************************)
InitLoop ==
    InitWith(Transcripts(MaxChatLen, {"distinct", "repeated"}), RemotePool,
             {st \in SettingsPool({0, 2}) : st.enabled_chats})

NextLoop ==
    \/ VecClick
    \/ Acquire("vec")
    \/ \E ok \in BOOLEAN : ListResponse("vec", ok)
    \/ \E ok \in BOOLEAN : SummarizeResponse("vec", ok)
    \/ \E ok \in BOOLEAN : InsertResponse("vec", ok)
    \/ \E ok \in BOOLEAN : DeleteResponse("vec", ok)
    \/ VecResume

SpecLoop == InitLoop /\ [][NextLoop]_vars

(***************************************************************************)
(* SpecDelta: the delta computations on their own, on every transcript,    *)
(* entry list and remote hash list up to a length                          *)
(***************************************************************************)
SeqsUpTo(S, n) == UNION {[1..k -> S] : k \in 0..n}

DeltaTexts == {1, 2}

DeltaChats == SeqsUpTo({Message(t, sys) : t \in DeltaTexts, sys \in BOOLEAN}, MaxDeltaLen)

\* the entries of one world: uid is the position in the list
DeltaEntries ==
    {[i \in 1..Len(q) |-> [uid |-> i, content |-> q[i]]] : q \in SeqsUpTo(DeltaTexts, MaxDeltaLen)}

DeltaHashes ==
    SeqsUpTo({getStringHash(t) : t \in DeltaTexts} \cup {StaleHash}, MaxDeltaLen)

\* lines 247, 254-255
ChatDelta(chat, hashesInCollection) ==
    /\ delta = NoDelta
    /\ delta' = [kind     |-> "chat",
                 local    |-> HashedMessages(chat),
                 hashes   |-> hashesInCollection,
                 toInsert |-> NewVectorItems(HashedMessages(chat), hashesInCollection),
                 toDelete |-> DeletedHashes(HashedMessages(chat), hashesInCollection)]
    /\ UNCHANGED <<settings, chats, currentChatId, is_send_press, remote, syncBlocked, call, loop,
                   retrievalVars>>

\* lines 1119-1121
WorldDelta(entries, hashesInCollection) ==
    /\ delta = NoDelta
    /\ delta' = [kind     |-> "world",
                 local    |-> entries,
                 hashes   |-> hashesInCollection,
                 toInsert |-> NewEntries(entries, hashesInCollection),
                 toDelete |-> DeletedEntryHashes(entries, hashesInCollection)]
    /\ UNCHANGED <<settings, chats, currentChatId, is_send_press, remote, syncBlocked, call, loop,
                   retrievalVars>>

InitDelta ==
    InitWith({<< >>}, {<< >>},
             {st \in SettingsPool({DefaultChunkSize}) : st.enabled_chats /\ ~st.summarize})

NextDelta ==
    \/ \E chat \in DeltaChats, h \in DeltaHashes : ChatDelta(chat, h)
    \/ \E entries \in DeltaEntries, h \in DeltaHashes : WorldDelta(entries, h)

SpecDelta == InitDelta /\ [][NextDelta]_vars

(***************************************************************************)
(* SpecAbort: the vectorize-all loop on long transcripts, with the user    *)
(* switching chats and generations starting and ending meanwhile           *)
(***************************************************************************)
InitAbort ==
    InitWith({t \in Transcripts(MaxChatLen, {"distinct"}) : Len(t) = MaxChatLen},
             {<< >>, <<StaleHash, getStringHash(1)>>},
             {st \in SettingsPool({DefaultChunkSize}) : st.enabled_chats})

NextAbort ==
    \/ NextLoop
    \/ SendPress
    \/ \E id \in ChatIds \cup {NoChat} : SwitchChat(id)

SpecAbort == InitAbort /\ [][NextAbort]_vars

(***************************************************************************)
(* The remote vector client (lines 629-645, 744-931)                       *)
(***************************************************************************)
\* calls of the client considered in a row
MaxClientOps == 2

\* the sources whose API key throwIfSourceInvalid looks up (lines 768-773)
KeySources == {"openai", "palm", "mistral", "togetherai", "nomicai", "cohere"}

\* faulty variant: the API key is not looked up
throwIfSourceInvalidNoKey ==
    IF settings.source \in {"ollama", "llamacpp"} /\ settings.source \notin client.server_urls
    THEN "api_url_missing"
    ELSE IF settings.source = "ollama" /\ settings.ollama_model = ""
    THEN "api_model_missing"
    ELSE IF settings.source = "extras" /\ "embeddings" \notin client.modules
    THEN "extras_module_missing"
    ELSE ""

\* lines 767-789: the cause of the error thrown, "" when nothing is thrown
throwIfSourceInvalid ==
    IF settings.source \in KeySources /\ settings.source \notin client.secret_state
    THEN "api_key_missing"
    ELSE IF settings.source \in {"ollama", "llamacpp"} /\ settings.source \notin client.server_urls
    THEN "api_url_missing"
    ELSE IF settings.source = "ollama" /\ settings.ollama_model = ""
    THEN "api_model_missing"
    ELSE IF settings.source = "extras" /\ "embeddings" \notin client.modules
    THEN "extras_module_missing"
    ELSE ""

\* one call of the client: the cause it threw before its fetch, if any, and
\* whether the fetch was sent
ClientCall(op, cause, fetched) ==
    /\ Len(client.calls) < MaxClientOps
    /\ client' = [client EXCEPT !.calls =
                      Append(@, [op |-> op, cause |-> cause, fetched |-> fetched])]
    /\ UNCHANGED <<syncVars, extension_prompts, collections, rc, bulk, hostVars>>

\* lines 629-637: fetch('/api/vector/list')
getSavedHashes == ClientCall("list", "", TRUE)

\* lines 744-757: throwIfSourceInvalid(), then fetch('/api/vector/insert')
insertVectorItems == ClientCall("insert", throwIfSourceInvalid, throwIfSourceInvalid = "")

\* lines 797-806: fetch('/api/vector/delete')
deleteVectorItems == ClientCall("delete", "", TRUE)

\* lines 819-832: fetch('/api/vector/query')
queryCollection == ClientCall("query", "", TRUE)

\* lines 849-862: fetch('/api/vector/query-multi')
queryMultipleCollections == ClientCall("query-multi", "", TRUE)

\* lines 875-890: fetch('/api/vector/purge') unless files are disabled
purgeFileVectorIndex == ClientCall("purge-file", "", settings.enabled_files)

\* lines 907-919: fetch('/api/vector/purge') unless chats are disabled
purgeVectorIndex == ClientCall("purge", "", settings.enabled_chats)

ClientSettingsPool ==
    [source : {"transformers", "openai", "ollama", "extras"},
     ollama_model : {"", "mxbai-embed-large"},
     enabled_chats : BOOLEAN, enabled_files : BOOLEAN]

InitClient ==
    /\ settings \in ClientSettingsPool
    /\ chats = [id \in ChatIds |-> << >>]
    /\ remote = [id \in ChatIds |-> << >>]
    /\ currentChatId = "chatA"
    /\ is_send_press = FALSE
    /\ syncBlocked = FALSE
    /\ call = [c \in Callers |-> BlankCall]
    /\ loop = IdleLoop
    /\ delta = NoDelta
    /\ client \in [secret_state : SUBSET {"openai"}, server_urls : SUBSET {"ollama"},
                    modules : SUBSET {"embeddings"}, calls : {<< >>}]
    /\ extension_prompts = ClearedPrompts
    /\ collections = [id \in CollectionIds |-> << >>]
    /\ rc = IdleRc
    /\ bulk = IdleBulk
    /\ HostAtRest

NextClient ==
    \/ getSavedHashes
    \/ insertVectorItems
    \/ deleteVectorItems
    \/ queryCollection
    \/ queryMultipleCollections
    \/ purgeFileVectorIndex
    \/ purgeVectorIndex

SpecClient == InitClient /\ [][NextClient]_vars

(***************************************************************************)
(* Retrieval: the pure parts of rearrangeChat, getQueryText and            *)
(* injectDataBankChunks                                                    *)
(***************************************************************************)
\* a message of the chat array handed to the interceptor; id stands for the
\* identity of the object (two messages may have the same text)
RcMessage(id, mes) ==
    [id |-> id, name |-> IF id % 2 = 1 THEN "user" ELSE "char", mes |-> mes,
     file |-> "", fileLength |-> 0]

\* a message with an attachment: extra.file.url and extra.fileLength, the file text
\* being the first fileLength letters of mes
RcFileMessage(id, mes, url, fileLength) ==
    [RcMessage(id, mes) EXCEPT !.file = url, !.fileLength = fileLength]

\* Array.prototype.indexOf: the first position of x in seq, 0 when absent
IndexOf(seq, x) ==
    IF Includes(seq, x) THEN CHOOSE i \in DOMAIN seq : seq[i] = x /\ \A j \in 1..(i - 1) : seq[j] # x
    ELSE 0

\* filter(onlyUnique): the first occurrence of every value, in order
onlyUnique(seq) ==
    LET keep == [i \in DOMAIN seq |-> IndexOf(seq, seq[i]) = i]
        RECURSIVE From(_)
        From(i) == IF i > Len(seq) THEN << >>
                   ELSE (IF keep[i] THEN <<seq[i]>> ELSE << >>) \o From(i + 1)
    IN  From(1)

\* faulty variant: one message less than settings.protect is retained
RetainMessagesShort(chat) ==
    IF settings.protect - 1 <= 0 THEN << >>
    ELSE IF settings.protect - 1 >= Len(chat) THEN chat
    ELSE SubSeq(chat, Len(chat) - settings.protect + 2, Len(chat))

\* line 543: chat.slice(-settings.protect); slice(-0) is slice(0), the whole array
RetainMessages(chat) ==
    IF settings.protect = 0 \/ settings.protect >= Len(chat) THEN chat
    ELSE SubSeq(chat, Len(chat) - settings.protect + 1, Len(chat))

\* lines 545-554: the messages to extract, in chat order: not retained, not empty,
\* hash among the query hashes, one message per hash
RECURSIVE QueriedFrom(_, _, _, _, _)
QueriedFrom(chat, i, queryHashes, retainMessages, queriedMessages) ==
    IF i > Len(chat) THEN queriedMessages
    ELSE IF Includes(retainMessages, chat[i]) \/ chat[i].mes = 0
    THEN QueriedFrom(chat, i + 1, queryHashes, retainMessages, queriedMessages)
    ELSE IF /\ Includes(queryHashes, getStringHash(chat[i].mes))
            /\ \A k \in DOMAIN queriedMessages :
                  getStringHash(queriedMessages[k].mes) # getStringHash(chat[i].mes)
    THEN QueriedFrom(chat, i + 1, queryHashes, retainMessages, Append(queriedMessages, chat[i]))
    ELSE QueriedFrom(chat, i + 1, queryHashes, retainMessages, queriedMessages)

QueriedMessages(chat, queryHashes) ==
    QueriedFrom(chat, 1, queryHashes, RetainMessages(chat), << >>)

\* faulty variant: the comparator of line 558 with a and b swapped
CompareRelevanceSwapped(a, b, queryHashes) ==
    (IndexOf(queryHashes, getStringHash(a.mes)) - 1) - (IndexOf(queryHashes, getStringHash(b.mes)) - 1)

\* line 558: the comparator of the sort, indexOf(hash of b) - indexOf(hash of a)
CompareRelevance(a, b, queryHashes) ==
    (IndexOf(queryHashes, getStringHash(b.mes)) - 1) - (IndexOf(queryHashes, getStringHash(a.mes)) - 1)

\* Array.prototype.sort with that comparator (a stable sort): x goes after the
\* elements it does not sort before
RECURSIVE SortInsert(_, _, _)
SortInsert(sorted, x, queryHashes) ==
    IF sorted = << >> THEN <<x>>
    ELSE IF CompareRelevance(x, Head(sorted), queryHashes) < 0 THEN <<x>> \o sorted
    ELSE <<Head(sorted)>> \o SortInsert(Tail(sorted), x, queryHashes)

RECURSIVE SortQueried(_, _)
SortQueried(queriedMessages, queryHashes) ==
    IF queriedMessages = << >> THEN << >>
    ELSE SortInsert(SortQueried(SubSeq(queriedMessages, 1, Len(queriedMessages) - 1), queryHashes),
                    queriedMessages[Len(queriedMessages)], queryHashes)

\* chat.splice(i, 1)
Splice(chat, i) == SubSeq(chat, 1, i - 1) \o SubSeq(chat, i + 1, Len(chat))

\* lines 561-565: for (const message of chat) over the array that the body splices:
\* the iterator goes on to the next position of the array as it is now
RECURSIVE RemoveFrom(_, _, _)
RemoveFrom(chat, i, queriedMessages) ==
    IF i > Len(chat) THEN chat
    ELSE IF Includes(queriedMessages, chat[i])
    THEN RemoveFrom(Splice(chat, IndexOf(chat, chat[i])), i + 1, queriedMessages)
    ELSE RemoveFrom(chat, i + 1, queriedMessages)

RemoveQueried(chat, queriedMessages) == RemoveFrom(chat, 1, queriedMessages)

\* lines 585-589: the block of the chat-memory slot, one "name: mes" per message
getPromptText(queriedMessages) ==
    [template |-> "template",
     text |-> [i \in DOMAIN queriedMessages |->
                  [name |-> queriedMessages[i].name, mes |-> queriedMessages[i].mes]]]

\* lines 604-608: the texts getQueryText works on, summarized when both settings ask
\* (summarized: the summaries came back)
QueryMessages(chat, summarized) ==
    [i \in DOMAIN chat |->
        IF settings.summarize /\ settings.summarize_sent /\ summarized
        THEN generateRaw(chat[i].mes)
        ELSE chat[i].mes]

\* lines 610-619: from the last text backwards, the non-empty texts, until the
\* count taken equals settings.query
RECURSIVE QueryTextFrom(_, _, _)
QueryTextFrom(texts, k, i) ==
    IF k < 1 THEN << >>
    ELSE LET taken == IF texts[k] # 0 THEN <<texts[k]>> ELSE << >>
             count == i + Len(taken)
         IN  IF count = settings.query THEN taken
             ELSE taken \o QueryTextFrom(texts, k - 1, count)

\* lines 600-622: the query text, as the list of the texts joined by newlines
getQueryText(chat, summarized) == QueryTextFrom(QueryMessages(chat, summarized), Len(chat), 0)

\* sort((a, b) => a.index - b.index), stable
RECURSIVE SortByIndex(_)
SortByIndex(metadata) ==
    IF metadata = << >> THEN << >>
    ELSE LET rest == SortByIndex(SubSeq(metadata, 1, Len(metadata) - 1))
             x    == metadata[Len(metadata)]
             before == SelectSeq(rest, LAMBDA y : y.index <= x.index)
             after  == SelectSeq(rest, LAMBDA y : y.index > x.index)
         IN  before \o <<x>> \o after

\* faulty variant: the texts of a collection are not made unique
CollectionTextsRepeated(metadata) ==
    LET sorted == SortByIndex(SelectSeq(metadata, LAMBDA x : x.text # ""))
    IN  [i \in DOMAIN sorted |-> sorted[i].text]

\* line 432: the texts of one collection: non-empty, by index, each once
CollectionTexts(metadata) ==
    LET sorted == SortByIndex(SelectSeq(metadata, LAMBDA x : x.text # ""))
    IN  onlyUnique([i \in DOMAIN sorted |-> sorted[i].text])

\* Array.prototype.join: the elements with sep between them
RECURSIVE Join(_, _)
Join(texts, sep) ==
    IF Len(texts) <= 1 THEN texts
    ELSE <<Head(texts), sep>> \o Join(Tail(texts), sep)

\* lines 428-434: textResult, a string written as the list of its pieces
RECURSIVE TextResult(_)
TextResult(queryResults) ==
    IF queryResults = << >> THEN << >>
    ELSE Join(CollectionTexts(Head(queryResults).metadata), "\n") \o <<"\n\n">>
            \o TextResult(Tail(queryResults))

(***************************************************************************)
(* rearrangeChat, the generation interceptor (lines 501-579), with         *)
(* processFiles (332-383), ingestDataBankAttachments (390-416),            *)
(* injectDataBankChunks (424-446) and activateWorldInfo (1061-1164).       *)
(* A text is written as its length, so substring and concatenation are     *)
(* differences and sums.                                                   *)
(***************************************************************************)
\* line 92: the collection of a file; line 1118: the collection of a world
FileCollection(url) == IF url = "1" THEN "file_1" ELSE "file_2"

WorldCollection(world) == IF world = "1" THEN "world_1" ELSE "world_2"

RcRequest(kind, coll, searchText) == [kind |-> kind, coll |-> coll, searchText |-> searchText]

\* faulty variant: every request goes to the insert endpoint
RcSendInsert(r, kind, coll, searchText) ==
    [r EXCEPT !.reqs = Append(@, RcRequest("insert", coll, searchText))]

RcSend(r, kind, coll, searchText) ==
    [r EXCEPT !.reqs = Append(@, RcRequest(kind, coll, searchText))]

\* rearrangeChat returns
RcDone(r) == [r EXCEPT !.pc = "done"]

\* lines 575-578: the catch of rearrangeChat, an error toast
RcAborted(r) == [r EXCEPT !.pc = "done", !.toast = TRUE]

\* lines 515-531: the chat-memory path up to its getQueryText
ChatPath(r) ==
    IF ~settings.enabled_chats THEN RcDone(r)
    ELSE IF currentChatId = NoChat THEN RcDone(r)
    ELSE IF Len(r.chat) < settings.protect THEN RcDone(r)
    ELSE [r EXCEPT !.pc = "chattext"]

\* lines 511-513, 1062-1067: activateWorldInfo up to getSortedEntries
AfterFiles(r) ==
    IF settings.enabled_world_info THEN [r EXCEPT !.pc = "entries"] ELSE ChatPath(r)

\* faulty variant: the listing is not looked at
AlreadyInCollectionNever(hashesInCollection) == FALSE

\* lines 370-371 and 401-402: hashesInCollection.length
AlreadyInCollection(hashesInCollection) == Len(hashesInCollection) > 0

\* String.prototype.substring(start) on a text written as its length
substring(text, start) == IF text < start THEN 0 ELSE text - start

\* lines 352-353: fileText, the first extra.fileLength letters of mes
FileText(message) ==
    IF message.mes < message.fileLength THEN message.mes ELSE message.fileLength

\* lines 347-357: a message without a file, or with a file text shorter than the
\* threshold, is passed over
HasLargeFile(message) ==
    /\ message.file # ""
    /\ ~(FileText(message) < settings.size_threshold * 1024)

\* lines 345-368: the loop over the chat goes on to the next message with a large
\* file, cuts the file text off its mes and lists the file's collection; after the
\* last message processFiles returns
AttachNext(r) ==
    LET later == {k \in (r.msgIdx + 1)..Len(r.chat) : HasLargeFile(r.chat[k])}
    IN  IF later = {} THEN AfterFiles([r EXCEPT !.msgIdx = Len(r.chat)])
        ELSE LET k == CHOOSE i \in later : \A j \in later : i <= j
                 message == r.chat[k]
             IN  RcSend([r EXCEPT !.pc = "attach", !.msgIdx = k,
                                  !.chat[k].mes = substring(message.mes, message.fileLength)],
                        "list", <<FileCollection(message.file)>>, << >>)

\* lines 395-397, 415 and 340-343: the next Data Bank file is listed; after the last
\* one the query text is asked for when there is a collection
IngestNext(r) ==
    IF r.fileIdx < Len(r.dataBank)
    THEN RcSend([r EXCEPT !.pc = "ingest", !.fileIdx = @ + 1],
                "list", <<FileCollection(r.dataBank[r.fileIdx + 1].url)>>, << >>)
    ELSE IF Len(r.ids) > 0 THEN [r EXCEPT !.pc = "dbtext"]
    ELSE AttachNext(r)

\* lines 1077-1107: the entries that are synchronized
Vectorizable(entry) ==
    /\ entry.world # ""
    /\ ~entry.disable
    /\ entry.content # 0
    /\ entry.vectorized \/ settings.enabled_for_all

\* the keys of groupedEntries in the order they were added
Worlds(entries) ==
    LET kept == SelectSeq(entries, Vectorizable)
    IN  onlyUnique([i \in DOMAIN kept |-> kept[i].world])

\* groupedEntries[world]
GroupedEntries(entries, world) ==
    SelectSeq(entries, LAMBDA e : Vectorizable(e) /\ e.world = world)

\* lines 1117-1119 and 1136-1137: the next world is listed; after the last one the
\* query text is asked for
WorldNext(r) ==
    IF r.worldIdx < Len(Worlds(r.entries))
    THEN RcSend([r EXCEPT !.pc = "wisync", !.worldIdx = @ + 1],
                "list", <<WorldCollection(Worlds(r.entries)[r.worldIdx + 1])>>, << >>)
    ELSE [r EXCEPT !.pc = "witext"]

\* lines 501-513: the slots are cleared and the first await is reached
RcStart(chat, dataBank, entries) ==
    /\ rc.pc = "idle"
    /\ extension_prompts' = ClearedPrompts
    /\ LET r == [IdleRc EXCEPT !.input = chat, !.chat = chat,
                               !.dataBank = dataBank, !.entries = entries]
       IN  rc' = IF settings.enabled_files THEN IngestNext(r) ELSE AfterFiles(r)
    /\ UNCHANGED <<syncVars, client, collections, bulk, hostVars>>

\* line 484: the items of a file
FileItems(fileText, chunkSize) ==
    LET chunks == splitRecursive(fileText, chunkSize)
    IN  [i \in DOMAIN chunks |-> [hash |-> getStringHash(chunks[i]), text |-> chunks[i],
                                  index |-> i - 1]]

\* lines 409-411: the chunk size of a Data Bank file
DataBankChunkSize(file) ==
    IF file.size > settings.size_threshold_db * 1024 THEN settings.chunk_size_db ELSE 0 - 1

\* lines 397-412: getSavedHashes of the file answers; a file not yet in the store is
\* downloaded and vectorized.  The awaits of one file are taken together.
RcIngestFile(outcome) ==
    /\ rc.pc = "ingest"
    /\ LET file   == rc.dataBank[rc.fileIdx]
           coll   == FileCollection(file.url)
           listed == [rc EXCEPT !.ids = Append(@, coll)]
           sent   == RcSend(listed, "insert", <<coll>>, << >>)
       IN  \/ /\ outcome = "listfail"
              /\ rc' = AfterFiles(rc)
              /\ UNCHANGED collections
           \/ /\ outcome = "ok" /\ AlreadyInCollection(collections[coll])
              /\ rc' = IngestNext(listed)
              /\ UNCHANGED collections
           \/ /\ outcome = "downloadfail" /\ ~AlreadyInCollection(collections[coll])
              /\ rc' = AfterFiles(listed)
              /\ UNCHANGED collections
           \/ /\ outcome = "vectorizefail" /\ ~AlreadyInCollection(collections[coll])
              /\ rc' = IngestNext(sent)
              /\ UNCHANGED collections
           \/ /\ outcome = "ok" /\ ~AlreadyInCollection(collections[coll])
              /\ rc' = IngestNext(sent)
              /\ collections' = [collections EXCEPT ![coll] =
                     StoreInsert(@, FileItems(file.text, DataBankChunkSize(file)))]
    /\ UNCHANGED <<syncVars, client, extension_prompts, bulk, hostVars>>

\* lines 369-373: the listing of the attachment's collection answers; the file text
\* is vectorized with settings.chunk_size when the collection is empty, and whether
\* or not that worked the query text is asked for
RcAttachFile(outcome) ==
    /\ rc.pc = "attach"
    /\ LET message == rc.input[rc.msgIdx]
           coll == FileCollection(message.file)
           sent == RcSend([rc EXCEPT !.pc = "attachtext"], "insert", <<coll>>, << >>)
       IN  \/ /\ outcome = "listfail"
              /\ rc' = AfterFiles(rc)
              /\ UNCHANGED collections
           \/ /\ outcome = "ok" /\ AlreadyInCollection(collections[coll])
              /\ rc' = [rc EXCEPT !.pc = "attachtext"]
              /\ UNCHANGED collections
           \/ /\ outcome = "vectorizefail" /\ ~AlreadyInCollection(collections[coll])
              /\ rc' = sent
              /\ UNCHANGED collections
           \/ /\ outcome = "ok" /\ ~AlreadyInCollection(collections[coll])
              /\ rc' = sent
              /\ collections' = [collections EXCEPT ![coll] =
                     StoreInsert(@, FileItems(FileText(message), settings.chunk_size))]
    /\ UNCHANGED <<syncVars, client, extension_prompts, bulk, hostVars>>

\* getQueryText resolves or rejects (generateRaw of summarizeMain failed) at one of
\* its call sites: lines 341-342, 375-376, 1137-1144, 531-539
RcQueryText(summarized) ==
    /\ rc.pc \in {"dbtext", "attachtext", "witext", "chattext"}
    /\ LET throws == /\ settings.summarize /\ settings.summarize_sent
                     /\ settings.summary_source = "main" /\ ~summarized
           queryText == getQueryText(rc.chat, summarized)
       IN  rc' = CASE rc.pc = "dbtext" ->
                        IF throws THEN AfterFiles(rc)
                        ELSE RcSend([rc EXCEPT !.pc = "dbquery"], "query-multi", rc.ids, queryText)
                   [] rc.pc = "attachtext" ->
                        IF throws THEN AfterFiles(rc)
                        ELSE RcSend([rc EXCEPT !.pc = "attachquery"], "query",
                                    <<FileCollection(rc.chat[rc.msgIdx].file)>>, queryText)
                   [] rc.pc = "witext" ->
                        IF throws THEN RcAborted(rc)
                        ELSE IF Len(queryText) = 0 THEN ChatPath(rc)
                        ELSE RcSend([rc EXCEPT !.pc = "wiquery"], "query-multi",
                                    [i \in DOMAIN Worlds(rc.entries) |->
                                        WorldCollection(Worlds(rc.entries)[i])], queryText)
                   [] rc.pc = "chattext" ->
                        IF throws THEN RcAborted(rc)
                        ELSE IF Len(queryText) = 0 THEN RcDone(rc)
                        ELSE RcSend([rc EXCEPT !.pc = "query"], "query", <<currentChatId>>, queryText)
    /\ UNCHANGED <<syncVars, client, extension_prompts, collections, bulk, hostVars>>

\* lines 436-442: the Data Bank slot is set unless textResult is the empty string
InjectedDataBank(textResult) ==
    IF textResult = << >> THEN extension_prompts
    ELSE [extension_prompts EXCEPT !["4_vectors_data_bank"] =
             [template |-> "file_template_db", text |-> textResult]]

\* lines 426-445: the query-multi request of the Data Bank answers; a failure is
\* caught and logged (line 443)
RcDataBankResponse(ok, queryResults) ==
    /\ rc.pc = "dbquery"
    /\ extension_prompts' = IF ok THEN InjectedDataBank(TextResult(queryResults))
                            ELSE extension_prompts
    /\ rc' = AttachNext(IF ok THEN [rc EXCEPT !.queryResults = queryResults] ELSE rc)
    /\ UNCHANGED <<syncVars, client, collections, bulk, hostVars>>

\* lines 454-462: the length of the text retrieveFileChunks returns, the texts of
\* the answer joined by newlines
RetrievedLength(metadata) ==
    LET texts == CollectionTexts(metadata)
    IN  Len(Join(texts, "\n"))

\* lines 376-378: the query of the attachment's collection answers and the chunks
\* are put in front of the message; a failed query is caught by processFiles
RcAttachResponse(ok, metadata) ==
    /\ rc.pc = "attachquery"
    /\ rc' = IF ok
             THEN AttachNext([rc EXCEPT !.chat[rc.msgIdx].mes = RetrievedLength(metadata) + 2 + @])
             ELSE AfterFiles(rc)
    /\ UNCHANGED <<syncVars, client, extension_prompts, collections, bulk, hostVars>>

\* lines 1067-1119: getSortedEntries answers and the entries are grouped
RcEntries ==
    /\ rc.pc = "entries"
    /\ rc' = IF Len(rc.entries) = 0 THEN ChatPath(rc)
             ELSE IF Len(Worlds(rc.entries)) = 0 THEN ChatPath(rc)
             ELSE WorldNext(rc)
    /\ UNCHANGED <<syncVars, client, extension_prompts, collections, bulk, hostVars>>

\* line 1125: the items of the new entries
EntryItems(newEntries) ==
    [i \in DOMAIN newEntries |-> [hash |-> getStringHash(newEntries[i].content),
                                  text |-> newEntries[i].content,
                                  index |-> newEntries[i].uid]]

\* lines 1119-1133: the collection of one world is listed and synchronized; any
\* failure leaves activateWorldInfo and is caught by rearrangeChat.  The awaits of
\* one world are taken together.
RcWorldSync(outcome) ==
    /\ rc.pc = "wisync"
    /\ LET world   == Worlds(rc.entries)[rc.worldIdx]
           coll    == WorldCollection(world)
           group   == GroupedEntries(rc.entries, world)
           new     == NewEntries(group, collections[coll])
           deleted == DeletedEntryHashes(group, collections[coll])
           ins     == IF Len(new) > 0 THEN RcSend(rc, "insert", <<coll>>, << >>) ELSE rc
           del     == IF Len(deleted) > 0 THEN RcSend(ins, "delete", <<coll>>, << >>) ELSE ins
           stored  == IF Len(new) > 0 THEN StoreInsert(collections[coll], EntryItems(new))
                      ELSE collections[coll]
       IN  \/ /\ outcome = "listfail"
              /\ rc' = RcAborted(rc)
              /\ UNCHANGED collections
           \/ /\ outcome = "insertfail" /\ Len(new) > 0
              /\ rc' = RcAborted(ins)
              /\ UNCHANGED collections
           \/ /\ outcome = "deletefail" /\ Len(deleted) > 0
              /\ rc' = RcAborted(del)
              /\ collections' = [collections EXCEPT ![coll] = stored]
           \/ /\ outcome = "ok"
              /\ rc' = WorldNext(del)
              /\ collections' = [collections EXCEPT ![coll] = StoreDelete(stored, deleted)]
    /\ UNCHANGED <<syncVars, client, extension_prompts, bulk, hostVars>>

\* lines 1144-1163: the query-multi request of the World Info answers with the
\* hashes of all its collections; the entries found are activated
RcWorldInfoResponse(ok, hashes) ==
    /\ rc.pc = "wiquery"
    /\ LET activatedHashes == onlyUnique(hashes)
           activatedEntries ==
               SelectSeq(rc.entries,
                         LAMBDA e : Includes(activatedHashes, getStringHash(e.content)))
       IN  rc' = IF ~ok THEN RcAborted(rc)
                 ELSE ChatPath([rc EXCEPT !.activated = activatedEntries])
    /\ UNCHANGED <<syncVars, client, extension_prompts, collections, bulk, hostVars>>

\* lines 539-574: the query request of the chat answers; the messages found are
\* taken out of the chat array and written to the chat-memory slot
RcQueryResponse(ok, hashes) ==
    /\ rc.pc = "query"
    /\ LET queryHashes     == onlyUnique(hashes)
           queriedMessages == SortQueried(QueriedMessages(rc.chat, queryHashes), queryHashes)
           r == [rc EXCEPT !.queryHashes = queryHashes,
                           !.queriedMessages = queriedMessages,
                           !.chat = RemoveQueried(rc.chat, queriedMessages)]
       IN  IF ~ok
           THEN rc' = RcAborted(rc) /\ UNCHANGED extension_prompts
           ELSE /\ rc' = RcDone(r)
                /\ extension_prompts' =
                      IF Len(queriedMessages) = 0 THEN extension_prompts
                      ELSE [extension_prompts EXCEPT !["3_vectors"] = getPromptText(queriedMessages)]
    /\ UNCHANGED <<syncVars, client, collections, bulk, hostVars>>

(***************************************************************************)
(* SpecInject: one run of the interceptor                                  *)
(***************************************************************************)
\* longest chat array handed to the interceptor
MaxRcLen == 3

\* most hashes a query answers with
MaxHits == 2

RcTexts == {0, 1, 2}

\* the chat arrays: every list of texts, the ids in chat order
RcChats ==
    UNION {{[i \in 1..n |-> RcMessage(i, t[i])] : t \in [1..n -> RcTexts]} : n \in 0..MaxRcLen}

\* the chat arrays tried when files or the World Info are enabled
RcChatsFew ==
    {<< >>, <<RcMessage(1, 0)>>, <<RcMessage(1, 1), RcMessage(2, 2)>>}

DataBankFile(url, size) == [url |-> url, size |-> size, text |-> size]

\* the Data Bank: a file below the size threshold and one above it
DataBanks ==
    {<< >>, <<DataBankFile("1", 7)>>, <<DataBankFile("1", 7), DataBankFile("2", 6000)>>}

WorldEntry(uid, world, content, disable, vectorized) ==
    [uid |-> uid, world |-> world, content |-> content, disable |-> disable,
     vectorized |-> vectorized]

\* the entries getSortedEntries answers with
EntryLists ==
    {<< >>,
     <<WorldEntry(1, "1", 1, FALSE, TRUE)>>,
     <<WorldEntry(1, "1", 1, FALSE, FALSE), WorldEntry(2, "2", 2, FALSE, TRUE)>>,
     <<WorldEntry(1, "", 1, FALSE, TRUE), WorldEntry(2, "1", 0, FALSE, TRUE),
       WorldEntry(3, "2", 2, TRUE, TRUE)>>,
     <<WorldEntry(1, "1", 1, TRUE, TRUE), WorldEntry(2, "1", 1, FALSE, TRUE)>>}

\* the hashes a query may answer with: of the texts, and one of no message
HitLists == SeqsUpTo({getStringHash(t) : t \in RcTexts \ {0}} \cup {StaleHash}, MaxHits)

Metadata(text, index) == [text |-> text, index |-> index]

\* what the store may answer for one collection of a query-multi
MetadataLists ==
    {<< >>,
     <<Metadata("", 0)>>,
     <<Metadata("x", 1), Metadata("y", 0)>>,
     <<Metadata("x", 0), Metadata("", 1), Metadata("x", 2)>>}

\* the answers to a query-multi over the collections ids: some of them, in any order
MultiResults(ids) ==
    {q \in SeqsUpTo([collectionId : Range(ids), metadata : MetadataLists], Len(ids)) :
        \A i, j \in DOMAIN q : i # j => q[i].collectionId # q[j].collectionId}

\* the hashes the store can answer a query of the World Info with: those it holds
\* for the collections queried
WorldHitLists ==
    LET queried == {WorldCollection(Worlds(rc.entries)[i]) : i \in DOMAIN Worlds(rc.entries)}
        stored  == UNION {Range(collections[id]) : id \in queried}
    IN  {hashes \in HitLists : Range(hashes) \subseteq stored}

\* a text left in the slots by an earlier generation
StalePrompts ==
    [tag \in {"3_vectors", "4_vectors_data_bank"} |->
        IF tag = "3_vectors" THEN getPromptText(<<RcMessage(1, 1)>>)
        ELSE [template |-> "file_template_db", text |-> <<"x", "\n\n">>]]

\* the settings rearrangeChat reads; the numbers of the Data Bank are the shipped ones
InjectSettingsPool ==
    {st \in [enabled_chats : BOOLEAN, enabled_files : BOOLEAN, enabled_world_info : BOOLEAN,
             enabled_for_all : BOOLEAN, protect : 0..2, query : 1..2,
             summarize : BOOLEAN, summarize_sent : BOOLEAN, summary_source : {"main"},
             size_threshold_db : {5}, chunk_size_db : {2500}] :
        /\ st.summarize_sent = st.summarize
        /\ ~st.enabled_world_info => ~st.enabled_for_all
        /\ (st.enabled_files \/ st.enabled_world_info) =>
              st.protect = 1 /\ st.query = 2 /\ ~st.summarize}

InitInject ==
    /\ settings \in InjectSettingsPool
    /\ chats = [id \in ChatIds |-> << >>]
    /\ remote = [id \in ChatIds |-> << >>]
    /\ currentChatId \in {"chatA", NoChat}
    /\ currentChatId = NoChat => ~settings.enabled_files /\ ~settings.enabled_world_info
    /\ is_send_press = TRUE
    /\ syncBlocked = FALSE
    /\ call = [c \in Callers |-> BlankCall]
    /\ loop = IdleLoop
    /\ delta = NoDelta
    /\ client = NoClientCalls
    /\ extension_prompts = StalePrompts
    /\ collections \in {[id \in CollectionIds |-> << >>],
                         [id \in CollectionIds |->
                             IF id \in {"file_1", "world_1"} THEN <<StaleHash>> ELSE << >>]}
    /\ rc = IdleRc
    /\ bulk = IdleBulk
    /\ HostAtRest

NextInject ==
    \/ \E chat \in (IF settings.enabled_files \/ settings.enabled_world_info
                     THEN RcChatsFew ELSE RcChats),
          dataBank \in (IF settings.enabled_files THEN DataBanks ELSE {<< >>}),
          entries \in (IF settings.enabled_world_info THEN EntryLists ELSE {<< >>}) :
            RcStart(chat, dataBank, entries)
    \/ \E outcome \in {"ok", "listfail", "downloadfail", "vectorizefail"} : RcIngestFile(outcome)
    \/ \E summarized \in BOOLEAN : RcQueryText(summarized)
    \/ \E ok \in BOOLEAN, queryResults \in MultiResults(rc.ids) : RcDataBankResponse(ok, queryResults)
    \/ RcEntries
    \/ \E outcome \in {"ok", "listfail", "insertfail", "deletefail"} : RcWorldSync(outcome)
    \/ \E ok \in BOOLEAN, hashes \in WorldHitLists : RcWorldInfoResponse(ok, hashes)
    \/ \E ok \in BOOLEAN, hashes \in HitLists : RcQueryResponse(ok, hashes)

SpecInject == InitInject /\ [][NextInject]_vars

(***************************************************************************)
(* SpecQuery: the chat-memory path alone, for every settings.query the      *)
(* number field can give (line 1258), 0 included                           *)
(***************************************************************************)
QuerySettingsPool ==
    [enabled_chats : {TRUE}, enabled_files : {FALSE}, enabled_world_info : {FALSE},
     enabled_for_all : {FALSE}, protect : 0..1, query : 0..2,
     summarize : {FALSE}, summarize_sent : {FALSE}, summary_source : {"main"},
     size_threshold_db : {5}, chunk_size_db : {2500}]

InitQuery ==
    /\ settings \in QuerySettingsPool
    /\ chats = [id \in ChatIds |-> << >>]
    /\ remote = [id \in ChatIds |-> << >>]
    /\ currentChatId = "chatA"
    /\ is_send_press = TRUE
    /\ syncBlocked = FALSE
    /\ call = [c \in Callers |-> BlankCall]
    /\ loop = IdleLoop
    /\ delta = NoDelta
    /\ RetrievalAtRest

NextQuery ==
    \/ \E chat \in RcChats : RcStart(chat, << >>, << >>)
    \/ \E summarized \in BOOLEAN : RcQueryText(summarized)
    \/ \E ok \in BOOLEAN, hashes \in HitLists : RcQueryResponse(ok, hashes)

SpecQuery == InitQuery /\ [][NextQuery]_vars

(***************************************************************************)
(* SpecIngest: generations one after the other with the files enabled, on   *)
(* chats with attachments, the vector store keeping what was inserted      *)
(***************************************************************************)
\* the interceptor has returned; the next generation calls it again
GenerationEnds ==
    /\ rc.pc = "done"
    /\ rc' = IdleRc
    /\ UNCHANGED <<syncVars, client, extension_prompts, collections, bulk, hostVars>>

\* chats with attachments above and below settings.size_threshold
IngestChats ==
    {<< >>,
     <<RcMessage(1, 1)>>,
     <<RcFileMessage(1, 8, "1", 7)>>,
     <<RcFileMessage(1, 11001, "2", 11000), RcMessage(2, 2)>>,
     <<RcFileMessage(1, 11001, "1", 11000), RcFileMessage(2, 11000, "2", 11000)>>}

\* the settings with the files enabled; the numbers are the shipped ones (lines 66-72)
IngestSettingsPool ==
    {st \in [enabled_chats : {FALSE}, enabled_files : {TRUE}, enabled_world_info : {FALSE},
             enabled_for_all : {FALSE}, protect : {1}, query : {2},
             summarize : BOOLEAN, summarize_sent : BOOLEAN, summary_source : {"main"},
             size_threshold : {10}, chunk_size : {5000},
             size_threshold_db : {5}, chunk_size_db : {2500}] :
        st.summarize_sent = st.summarize}

InitIngest ==
    /\ settings \in IngestSettingsPool
    /\ chats = [id \in ChatIds |-> << >>]
    /\ remote = [id \in ChatIds |-> << >>]
    /\ currentChatId = "chatA"
    /\ is_send_press = TRUE
    /\ syncBlocked = FALSE
    /\ call = [c \in Callers |-> BlankCall]
    /\ loop = IdleLoop
    /\ delta = NoDelta
    /\ RetrievalAtRest

NextIngest ==
    \/ \E chat \in IngestChats, dataBank \in DataBanks : RcStart(chat, dataBank, << >>)
    \/ \E outcome \in {"ok", "listfail", "downloadfail", "vectorizefail"} : RcIngestFile(outcome)
    \/ \E summarized \in BOOLEAN : RcQueryText(summarized)
    \/ \E ok \in BOOLEAN, queryResults \in MultiResults(rc.ids) : RcDataBankResponse(ok, queryResults)
    \/ \E outcome \in {"ok", "listfail", "vectorizefail"} : RcAttachFile(outcome)
    \/ \E ok \in BOOLEAN, metadata \in MetadataLists : RcAttachResponse(ok, metadata)
    \/ GenerationEnds

SpecIngest == InitIngest /\ [][NextIngest]_vars

(***************************************************************************)
(* onVectorizeAllFilesClick                                                *)
(***************************************************************************)
\* lines 996-1011: chatAttachments.includes(file) is asked first
getChunkSize(file, dataBank, chatAttachments) ==
    IF file \in Range(chatAttachments)
    THEN (IF file.size > settings.size_threshold * 1024 THEN settings.chunk_size ELSE 0 - 1)
    ELSE IF file \in Range(dataBank)
    THEN (IF file.size > settings.size_threshold_db * 1024 THEN settings.chunk_size_db ELSE 0 - 1)
    ELSE 0 - 1

\* lines 472-495: the items are inserted and true is returned; whatever is thrown on
\* the way (by the translation, by throwIfSourceInvalid, by the insert request) is
\* caught and false is returned.  stored is the collection in the vector store.
vectorizeFile(stored, fileText, chunkSize, inserted) ==
    IF inserted
    THEN [result |-> TRUE, stored |-> StoreInsert(stored, FileItems(fileText, chunkSize))]
    ELSE [result |-> FALSE, stored |-> stored]

\* faulty variant: the flag keeps the result of the last file only
AllSuccessLastOnly(allSuccess, result) == result

\* lines 1028-1030: if (!result) allSuccess = false
AllSuccessAfter(allSuccess, result) == allSuccess /\ result

\* lines 1033-1037: the report after the loop
BulkReport(b) ==
    [b EXCEPT !.pc = "done", !.toast = IF b.allSuccess THEN "success" ELSE "warning"]

\* lines 1038-1041: anything thrown outside vectorizeFile ends the operation
BulkCaught(b, error) ==
    [b EXCEPT !.pc = "done", !.error = error, !.toast = "error"]

\* line 1014: the next file of allFiles, or the report after the last one
BulkNext(b) ==
    IF b.idx < Len(b.allFiles)
    THEN [b EXCEPT !.pc = "file", !.idx = @ + 1, !.attempted = Append(@, b.allFiles[b.idx + 1])]
    ELSE BulkReport(b)

\* lines 986-1015: the click; allFiles is the Data Bank followed by the attachments
\* of the chat
onVectorizeAllFilesClick(dataBank, chatAttachments) ==
    /\ bulk.pc = "idle"
    /\ bulk' = BulkNext([IdleBulk EXCEPT !.dataBank = dataBank,
                                         !.chatAttachments = chatAttachments,
                                         !.allFiles = dataBank \o chatAttachments])
    /\ UNCHANGED <<syncVars, client, extension_prompts, collections, rc, hostVars>>

\* lines 1015-1031: the body of the loop for one file; its awaits are taken together.
\* getFileAttachment and getSavedHashes are awaited outside vectorizeFile.
BulkFile(outcome) ==
    /\ bulk.pc = "file"
    /\ LET file == bulk.allFiles[bulk.idx]
           coll == FileCollection(file.url)
           done == vectorizeFile(collections[coll], file.text,
                                 getChunkSize(file, bulk.dataBank, bulk.chatAttachments),
                                 outcome = "ok")
           after == [bulk EXCEPT !.allSuccess = AllSuccessAfter(@, done.result),
                                 !.failed = IF done.result THEN @ ELSE @ \cup {bulk.idx}]
       IN  \/ /\ outcome = "downloadfail"
              /\ bulk' = BulkCaught(bulk, "Failed to download file")
              /\ UNCHANGED collections
           \/ /\ outcome = "listfail"
              /\ bulk' = BulkCaught(bulk, "Failed to get saved hashes")
              /\ UNCHANGED collections
           \/ /\ outcome = "ok" /\ collections[coll] # << >>
              /\ bulk' = BulkNext(bulk)
              /\ UNCHANGED collections
           \/ /\ outcome \in {"ok", "vectorizefail"} /\ collections[coll] = << >>
              /\ bulk' = BulkNext(after)
              /\ collections' = [collections EXCEPT ![coll] = done.stored]
    /\ UNCHANGED <<syncVars, client, extension_prompts, rc, hostVars>>

\* the attachments of the chat messages: a file above settings.size_threshold
ChatAttachmentLists == {<< >>, <<DataBankFile("2", 11000)>>}

\* the settings the bulk operation reads, as shipped (lines 66-72)
FilesSettingsPool ==
    [enabled_chats : {FALSE}, enabled_files : BOOLEAN, size_threshold : {10},
     chunk_size : {5000}, size_threshold_db : {5}, chunk_size_db : {2500}]

InitFiles ==
    /\ settings \in FilesSettingsPool
    /\ chats = [id \in ChatIds |-> << >>]
    /\ remote = [id \in ChatIds |-> << >>]
    /\ currentChatId \in {"chatA", NoChat}
    /\ is_send_press = FALSE
    /\ syncBlocked = FALSE
    /\ call = [c \in Callers |-> BlankCall]
    /\ loop = IdleLoop
    /\ delta = NoDelta
    /\ client = NoClientCalls
    /\ extension_prompts = ClearedPrompts
    /\ collections \in {[id \in CollectionIds |-> << >>],
                         [id \in CollectionIds |->
                             IF id = "file_1" THEN <<StaleHash>> ELSE << >>]}
    /\ rc = IdleRc
    /\ bulk = IdleBulk
    /\ HostAtRest

NextFiles ==
    \/ \E dataBank \in DataBanks, chatAttachments \in ChatAttachmentLists :
          onVectorizeAllFilesClick(dataBank, chatAttachments)
    \/ \E outcome \in {"ok", "downloadfail", "listfail", "vectorizefail"} : BulkFile(outcome)

SpecFiles == InitFiles /\ [][NextFiles]_vars

(***************************************************************************)
(* The chats router of the server (src/src/endpoints/chats.js): the chat   *)
(* importers, /import and /rename.  A chat file is written as the list of  *)
(* its lines, a line as the object JSON.parse gives for it; the dates       *)
(* (humanizedISO8601DateTime) are left out of the objects and of the file  *)
(* names.  The handlers call the file system synchronously, so each runs   *)
(* in one step.                                                            *)
(***************************************************************************)
\* the first object of a chat file (lines 47-51, 86-90, 120-124)
Starter(userName, characterName) ==
    [user_name |-> userName, character_name |-> characterName]

\* the object of one message (lines 55-60, 64-69, 94-99, 126-131)
ChatLine(name, is_user, mes) == [name |-> name, is_user |-> is_user, mes |-> mes]

\* lines 53-72: the messages of the pairs of data_visible, empty ones left out
RECURSIVE OobaLines(_, _, _)
OobaLines(userName, characterName, pairs) ==
    IF pairs = << >> THEN << >>
    ELSE LET arr == Head(pairs)
         IN  (IF arr[1] # "" THEN <<ChatLine(userName, TRUE, arr[1])>> ELSE << >>)
             \o (IF arr[2] # "" THEN <<ChatLine(characterName, FALSE, arr[2])>> ELSE << >>)
             \o OobaLines(userName, characterName, Tail(pairs))

\* lines 45-76
importOobaChat(userName, characterName, jsonData) ==
    <<Starter(userName, characterName)>>
        \o OobaLines(userName, characterName, jsonData.data_visible)

\* lines 85-104
importAgnaiChat(userName, characterName, jsonData) ==
    <<Starter(userName, characterName)>>
        \o [i \in DOMAIN jsonData.messages |->
               LET isUser == jsonData.messages[i].userId # ""
               IN  ChatLine(IF isUser THEN userName ELSE characterName, isUser,
                            jsonData.messages[i].msg)]

\* lines 119-134: convert, the lines of one history
convert(userName, characterName, history) ==
    <<Starter(userName, characterName)>>
        \o [i \in DOMAIN history.msgs |->
               ChatLine(IF history.msgs[i].src.is_human THEN userName ELSE characterName,
                        history.msgs[i].src.is_human, history.msgs[i].text)]

\* line 136: jsonData.histories.histories ?? []
Histories(jsonData) ==
    IF "histories" \in DOMAIN jsonData.histories THEN jsonData.histories.histories ELSE << >>

\* lines 113-138: the callback of map reads newChats while the const is still being
\* initialized, which throws a ReferenceError; with no history the callback is not
\* called and the empty array is returned
importCAIChat(userName, characterName, jsonData) ==
    IF Histories(jsonData) = << >>
    THEN [threw |-> FALSE, chats |-> << >>]
    ELSE [threw |-> TRUE, chats |-> << >>]

\* the responses of the router
SendStatus(code) == [status |-> code]

SendRes == [status |-> 200, res |-> TRUE]

SendError(code) == [status |-> code, error |-> TRUE]

SendOk == [status |-> 200, ok |-> TRUE]

\* the handler returns, having sent the responses sent
Handled(sent) == [http EXCEPT !.pc = "handled", !.responses = sent]

FileOf(content) == [exists |-> TRUE, content |-> content]

\* lines 356, 366, 373, 389: `${characterName} - ${date} imported.jsonl`
ImportedName == "imported.jsonl"

\* writeFileAtomicSync and fs.copyFileSync: the file is created or replaced
WriteFile(fs, name, content) == [fs EXCEPT ![name] = FileOf(content)]

RECURSIVE WriteChats(_, _)
WriteChats(fs, chatList) ==
    IF chatList = << >> THEN fs
    ELSE WriteChats(WriteFile(fs, ImportedName, Head(chatList)), Tail(chatList))

\* lines 351-377: file_type json.  The result is the response sent and the files.
ImportJson(req) ==
    LET jsonData == req.upload.json
        userName == IF req.user_name = "" THEN "You" ELSE req.user_name
    IN  IF "invalid" \in DOMAIN jsonData THEN [sent |-> <<SendError(200)>>, fs |-> files]
        ELSE IF "histories" \in DOMAIN jsonData
        THEN LET cai == importCAIChat(userName, req.character_name, jsonData)
             IN  IF cai.threw THEN [sent |-> <<SendError(200)>>, fs |-> files]
                 ELSE [sent |-> <<SendRes>>, fs |-> WriteChats(files, cai.chats)]
        ELSE IF "data_visible" \in DOMAIN jsonData
        THEN [sent |-> <<SendRes>>,
              fs |-> WriteFile(files, ImportedName,
                               importOobaChat(userName, req.character_name, jsonData))]
        ELSE IF "messages" \in DOMAIN jsonData
        THEN [sent |-> <<SendRes>>,
              fs |-> WriteFile(files, ImportedName,
                               importAgnaiChat(userName, req.character_name, jsonData))]
        ELSE [sent |-> <<SendError(200)>>, fs |-> files]

\* lines 380-394: file_type jsonl, the first line decides
ImportJsonl(req) ==
    LET jsonData == req.upload.lines[1]
    IN  IF "invalid" \in DOMAIN jsonData THEN [sent |-> <<SendError(200)>>, fs |-> files]
        ELSE IF "user_name" \in DOMAIN jsonData \/ "name" \in DOMAIN jsonData
        THEN [sent |-> <<SendRes>>, fs |-> WriteFile(files, ImportedName, req.upload.lines)]
        ELSE [sent |-> <<SendError(200)>>, fs |-> files]

\* a request reaches the router
Arrives(req) ==
    /\ http.pc \in {"idle", "handled"}
    /\ http' = [pc |-> req.route, request |-> req, responses |-> << >>]
    /\ UNCHANGED <<syncVars, extensionVars, files, power_user>>

\* lines 337-402: the handler of /import
Import ==
    /\ http.pc = "import"
    /\ LET req == http.request
           done == IF req.file_type = "json" THEN ImportJson(req)
                   ELSE IF req.file_type = "jsonl" THEN ImportJsonl(req)
                   ELSE [sent |-> << >>, fs |-> files]
       IN  IF ~req.hasBody \/ ~req.hasFile
           THEN /\ http' = Handled(<<SendStatus(400)>>)
                /\ UNCHANGED files
           ELSE /\ http' = Handled(done.sent)
                /\ files' = done.fs
    /\ UNCHANGED <<syncVars, extensionVars, power_user>>

\* faulty variant: the destination is not looked at
RenameRefusedOnlyIfMissing(fs, original_file, renamed_file) == ~fs[original_file].exists

\* line 209: !fs.existsSync(pathToOriginalFile) || fs.existsSync(pathToRenamedFile)
RenameRefused(fs, original_file, renamed_file) ==
    ~fs[original_file].exists \/ fs[renamed_file].exists

\* lines 214-215: fs.copyFileSync, then fs.rmSync of the original
Renamed(fs, original_file, renamed_file) ==
    [WriteFile(fs, renamed_file, fs[original_file].content) EXCEPT ![original_file] = NoFile]

\* lines 195-217: the handler of /rename
Rename ==
    /\ http.pc = "rename"
    /\ LET req == http.request
       IN  IF ~req.hasBody \/ req.original_file = "" \/ req.renamed_file = ""
           THEN /\ http' = Handled(<<SendStatus(400)>>)
                /\ UNCHANGED files
           ELSE IF RenameRefused(files, req.original_file, req.renamed_file)
           THEN /\ http' = Handled(<<SendError(400)>>)
                /\ UNCHANGED files
           ELSE /\ http' = Handled(<<SendOk>>)
                /\ files' = Renamed(files, req.original_file, req.renamed_file)
    /\ UNCHANGED <<syncVars, extensionVars, power_user>>

(***************************************************************************)
(* SpecRouter: requests to /import and /rename one after the other          *)
(***************************************************************************)
CaiMessage(is_human, text) == [src |-> [is_human |-> is_human], text |-> text]

\* CAI Tools exports with no history, one and two, and one without the inner list
CaiExports ==
    {[histories |-> [histories |-> hs]] :
        hs \in {<< >>,
                <<[msgs |-> <<CaiMessage(TRUE, "hi"), CaiMessage(FALSE, "yo")>>]>>,
                <<[msgs |-> <<CaiMessage(TRUE, "hi")>>], [msgs |-> << >>]>>}}
    \cup {[histories |-> [version |-> 1]]}

OobaExport == [data_visible |-> <<<<"hi", "yo">>, <<"", "hm">>>>]

AgnaiExport == [messages |-> <<[userId |-> "u1", msg |-> "hi"], [userId |-> "", msg |-> "yo"]>>]

\* the uploaded files: what JSON.parse makes of the whole file and of its lines
Uploads ==
    {[json |-> j, lines |-> <<j>>] :
        j \in CaiExports \cup {OobaExport, AgnaiExport, [invalid |-> TRUE], [other |-> 1],
                               Starter("u", "c")}}
    \cup {[json |-> [invalid |-> TRUE],
           lines |-> <<Starter("u", "c"), ChatLine("u", TRUE, "hi")>>]}

ImportRequests ==
    [route : {"import"}, hasBody : {TRUE}, hasFile : BOOLEAN,
     file_type : {"json", "jsonl", "txt"}, character_name : {"c"}, user_name : {"", "u"},
     upload : Uploads]

RenameRequests ==
    [route : {"rename"}, hasBody : {TRUE},
     original_file : {"", "a.jsonl", "b.jsonl"}, renamed_file : {"", "a.jsonl", "b.jsonl"}]

\* the chats directory at the start: empty, one chat, two chats
InitialFiles ==
    {[name \in FileNames |->
         IF name \in present THEN FileOf(<<Starter("u", name)>>) ELSE NoFile] :
        present \in {{}, {"a.jsonl"}, {"a.jsonl", "b.jsonl"}}}

InitRouter ==
    /\ settings \in FilesSettingsPool
    /\ ~settings.enabled_files
    /\ chats = [id \in ChatIds |-> << >>]
    /\ remote = [id \in ChatIds |-> << >>]
    /\ currentChatId = NoChat
    /\ is_send_press = FALSE
    /\ syncBlocked = FALSE
    /\ call = [c \in Callers |-> BlankCall]
    /\ loop = IdleLoop
    /\ delta = NoDelta
    /\ client = NoClientCalls
    /\ extension_prompts = ClearedPrompts
    /\ collections = [id \in CollectionIds |-> << >>]
    /\ rc = IdleRc
    /\ bulk = IdleBulk
    /\ files \in InitialFiles
    /\ http = IdleHttp
    /\ power_user = IdleInstruct

NextRouter ==
    \/ \E req \in ImportRequests \cup RenameRequests : Arrives(req)
    \/ Import
    \/ Rename

SpecRouter == InitRouter /\ [][NextRouter]_vars

(***************************************************************************)
(* The instruct mode (src/public/scripts/instruct-mode.js):                *)
(* autoSelectInstructPreset.  An activation regex is written as the model  *)
(* id it matches, "." matching every id and "(" being no regex at all.     *)
(***************************************************************************)
\* regexFromString(preset.activation_regex) is a RegExp and regex.test(modelId)
RegexMatches(activation_regex, modelId) ==
    /\ activation_regex # "("
    /\ activation_regex = "." \/ activation_regex = modelId

\* lines 174-175: the preset named like the context template, when presets are bound
\* to it
ContextMatches(pu) ==
    {i \in DOMAIN pu.presets :
        pu.instruct.bind_to_context /\ pu.presets[i].name = pu.context.preset}

\* the presets whose activation regex is set and matches the model id
RegexMatching(pu, modelId) ==
    {i \in DOMAIN pu.presets :
        /\ pu.presets[i].activation_regex # ""
        /\ RegexMatches(pu.presets[i].activation_regex, modelId)}

\* faulty variant: the loop goes on after a match, the last one stays selected
LastOf(matching) == CHOOSE i \in matching : \A j \in matching : j <= i

\* lines 173, 183, 191-194: the loops stop at the first match
FirstOf(matching) == CHOOSE i \in matching : \A j \in matching : i <= j

\* lines 148-152, 598-601: selectInstructPreset, and the change handler of the
\* preset list that follows it
Selected(pu, name, by) ==
    [pu EXCEPT !.instruct.preset = name, !.selected = Append(@, [name |-> name, by |-> by])]

\* lines 202-207: the default preset is selected when presets are bound to the
\* context template, it is not the selected one and it exists
DefaultApplies(pu) ==
    /\ pu.instruct.bind_to_context
    /\ pu.default_instruct # ""
    /\ pu.instruct.preset # pu.default_instruct
    /\ \E i \in DOMAIN pu.presets : pu.presets[i].name = pu.default_instruct

\* lines 164-211: power_user after the call, with the value returned
AutoSelected(pu, modelId) ==
    LET start == [pu EXCEPT !.modelId = modelId, !.before = pu.instruct.preset,
                            !.selected = << >>, !.result = <<FALSE>>]
    IN  IF ~pu.instruct.enabled THEN start
        ELSE IF ContextMatches(pu) # {}
        THEN Selected(start, pu.presets[FirstOf(ContextMatches(pu))].name, "context")
        ELSE IF RegexMatching(pu, modelId) # {}
        THEN [Selected(start, pu.presets[FirstOf(RegexMatching(pu, modelId))].name, "regex")
                 EXCEPT !.result = <<TRUE>>]
        ELSE IF DefaultApplies(pu) THEN Selected(start, pu.default_instruct, "default")
        ELSE start

\* the API reports a model id
autoSelectInstructPreset(modelId) ==
    /\ power_user' = AutoSelected(power_user, modelId)
    /\ UNCHANGED <<syncVars, extensionVars, files, http>>

(***************************************************************************)
(* SpecInstruct: autoSelectInstructPreset on every setting and preset list  *)
(***************************************************************************)
InstructPreset(name, activation_regex) == [name |-> name, activation_regex |-> activation_regex]

PresetLists ==
    {<< >>,
     <<InstructPreset("A", ""), InstructPreset("B", "llama")>>,
     <<InstructPreset("A", "."), InstructPreset("B", "llama"), InstructPreset("C", "(")>>,
     <<InstructPreset("A", "("), InstructPreset("B", "llama"), InstructPreset("C", ".")>>,
     <<InstructPreset("A", "mistral"), InstructPreset("B", "."), InstructPreset("C", "llama")>>}

ModelIds == {"llama", "mistral", "gpt"}

InitInstruct ==
    /\ settings \in FilesSettingsPool
    /\ ~settings.enabled_files
    /\ chats = [id \in ChatIds |-> << >>]
    /\ remote = [id \in ChatIds |-> << >>]
    /\ currentChatId = NoChat
    /\ is_send_press = FALSE
    /\ syncBlocked = FALSE
    /\ call = [c \in Callers |-> BlankCall]
    /\ loop = IdleLoop
    /\ delta = NoDelta
    /\ client = NoClientCalls
    /\ extension_prompts = ClearedPrompts
    /\ collections = [id \in CollectionIds |-> << >>]
    /\ rc = IdleRc
    /\ bulk = IdleBulk
    /\ files = [name \in FileNames |-> NoFile]
    /\ http = IdleHttp
    /\ \E enabled \in BOOLEAN, bind_to_context \in BOOLEAN, preset \in {"A", "B"},
          context \in {"A", "X"}, default_instruct \in {"", "C"}, presets \in PresetLists :
            power_user = [IdleInstruct EXCEPT
                             !.instruct = [enabled |-> enabled, preset |-> preset,
                                           bind_to_context |-> bind_to_context],
                             !.context = [preset |-> context],
                             !.default_instruct = default_instruct,
                             !.presets = presets]

NextInstruct == \E modelId \in ModelIds : autoSelectInstructPreset(modelId)

SpecInstruct == InitInstruct /\ [][NextInstruct]_vars

(***************************************************************************)
(* The claims                                                              *)
(***************************************************************************)
\* the program points of a call between taking the guard and its return
InTry == {"list", "summarize", "insert", "delete"}

LocalHashes(chat) == {getStringHash(chat[i].mes) : i \in {j \in DOMAIN chat : ~chat[j].is_system}}

(* C1, as stated: a call made while the guard is held (startedBlocked) never
   gets past the wait: it issues no list, insert or delete request, however
   long the call holding the guard takes. *)
C1_DroppedWhenGuardHeld ==
    \A c \in Callers : call[c].startedBlocked => call[c].pc \notin InTry

(* C1, amended: a call made while the guard is held waits; as long as the guard
   is held at a poll it neither takes the guard nor issues a request nor
   changes the store, and when the wait times out it returns -1 with no request
   issued and the guard untouched. *)
C1_BlockedWhileGuardHeld ==
    [][\A c \in Callers :
          (call[c].pc = "wait" /\ syncBlocked /\ call'[c] # call[c]) =>
              /\ call'[c].pc \in {"wait", "returned"}
              /\ call'[c].pc = "returned" => call'[c].result = <<-1>>
              /\ call'[c].reqs = << >>
              /\ remote' = remote
              /\ syncBlocked' = syncBlocked]_vars

\* a call made while another one was in flight has timed out, and that one is
\* still in flight
C1_Witness ==
    \E c, d \in Callers :
        /\ call[c].pc = "returned" /\ call[c].exit = "blocked" /\ call[c].startedBlocked
        /\ call[d].pc \in InTry /\ syncBlocked

(* C2: at most one synchronizeChat call is between taking the guard and
   releasing it, whichever chat collections the two callers target. *)
C2_SingleFlight ==
    /\ Cardinality({c \in Callers : call[c].pc \in InTry}) <= 1
    /\ syncBlocked <=> \E c \in Callers : call[c].pc \in InTry

\* one caller is in flight on one chat while the other waits to work on another
C2_Witness ==
    \E c, d \in Callers :
        /\ call[c].pc \in InTry /\ call[d].pc = "wait" /\ call[d].polls > 0
        /\ currentChatId \in ChatIds /\ call[c].chatId # currentChatId

(* C3: a call that has taken the guard gives it back: with every request
   answered (successfully or not), the guard held by a call is released in
   the end, and it is held only while a call is between taking it and its
   return, whichever way the call ends. *)
C3_GuardReleased ==
    /\ syncBlocked ~> ~syncBlocked
    /\ [](syncBlocked => \E c \in Callers : call[c].pc \in InTry)

\* a call has ended through its catch block and the guard is free again
C3_Witness ==
    \E c \in Callers : call[c].pc = "returned" /\ call[c].exit = "error" /\ ~syncBlocked

CeilDiv(a, b) == (a + b - 1) \div b

(* C4: on a fixed chat, with batch size b and no failing request, the
   vectorize-all loop sees a return value <= 0 at its call number
   ceil(newItems/b) at the latest (a return > 0 happens only before that
   call), and when a call returns <= 0 the remote hash set of the chat
   collection equals the set of hashes of the local non-system messages. *)
C4_Converges ==
    (loop.pc = "running" /\ call["vec"].pc = "returned" /\ call["vec"].exit = "ok") =>
        /\ call["vec"].result[1] > 0 => loop.calls < CeilDiv(loop.newAtStart, batchSize)
        /\ call["vec"].result[1] <= 0 =>
              Range(remote[loop.chatId]) = LocalHashes(chats[loop.chatId])

\* a run of more than one batch has ended at its second call
C4_Witness ==
    /\ loop.pc = "running" /\ loop.calls = 2 /\ loop.newAtStart > batchSize
    /\ call["vec"].pc = "returned" /\ call["vec"].exit = "ok"
    /\ call["vec"].result[1] <= 0

\* out holds the elements of src whose flag in keep is set, in the order of src
IsFilter(out, src, keep) ==
    LET kept == {i \in DOMAIN src : keep[i]}
    IN  /\ Len(out) = Cardinality(kept)
        /\ \A i \in kept : out[Cardinality({j \in kept : j <= i})] = src[i]

\* the hash an element of a delta carries: an item's hash, an entry's content hashed
DeltaHash(x) == IF delta.kind = "chat" THEN x.hash ELSE getStringHash(x.content)

(* C5: toInsert is the local items whose hash is not in the remote hash list,
   in local order; toDelete is the remote hashes that no local item carries,
   in remote order; an item whose hash is remote is in neither. For the chat
   delta and for the delta of one world of the knowledge base. *)
C5_Delta ==
    delta.kind # "" =>
        LET localHashes == {DeltaHash(delta.local[i]) : i \in DOMAIN delta.local}
        IN  /\ IsFilter(delta.toInsert, delta.local,
                        [i \in DOMAIN delta.local |->
                            DeltaHash(delta.local[i]) \notin Range(delta.hashes)])
            /\ IsFilter(delta.toDelete, delta.hashes,
                        [i \in DOMAIN delta.hashes |-> delta.hashes[i] \notin localHashes])
            /\ \A i \in DOMAIN delta.local :
                  DeltaHash(delta.local[i]) \in Range(delta.hashes) =>
                      /\ delta.local[i] \notin Range(delta.toInsert)
                      /\ DeltaHash(delta.local[i]) \notin Range(delta.toDelete)

\* two local items, the second one remote already, and one stale remote hash; once
\* for a chat and once for a world
C5_Witness ==
    /\ Len(delta.local) = 2 /\ Len(delta.hashes) = 2
    /\ DeltaHash(delta.local[1]) \notin Range(delta.hashes)
    /\ delta.hashes[1] = DeltaHash(delta.local[2])
    /\ delta.hashes[2] = StaleHash
    /\ delta.toInsert = <<delta.local[1]>>
    /\ delta.toDelete = <<StaleHash>>
    /\ delta.kind = "world"

\* the message an item was made from
MessageOf(c, item) == chats[call[c].chatId][item.index + 1]

(* C6, as stated: with summarization on, the hash an item carries when the
   delta is computed is the hash of its text after summarization. *)
C6_HashOfSummary ==
    \A c \in Callers :
        (settings.summarize /\ call[c].pc \in {"insert", "delete"}) =>
            \A k \in DOMAIN call[c].hashedMessages :
                call[c].hashedMessages[k].hash = getStringHash(call[c].hashedMessages[k].text)

(* C6, amended: summarization changes the text of an item and not its hash:
   the hash that decides whether an item is new or stale is the hash of the
   original message text, with summarization on or off. *)
C6_HashOfMessage ==
    \A c \in Callers :
        call[c].pc \in InTry =>
            /\ \A k \in DOMAIN call[c].hashedMessages :
                  call[c].hashedMessages[k].hash
                      = getStringHash(MessageOf(c, call[c].hashedMessages[k]).mes)
            /\ call[c].pc \in {"insert", "delete"} =>
                  /\ \A k \in DOMAIN call[c].hashedMessages :
                        call[c].hashedMessages[k] \in Range(call[c].newVectorItems)
                            <=> getStringHash(MessageOf(c, call[c].hashedMessages[k]).mes)
                                    \notin Range(call[c].hashesInCollection)
                  /\ Range(call[c].deletedHashes)
                        = Range(call[c].hashesInCollection) \ LocalHashes(chats[call[c].chatId])

\* an item whose text was replaced by a different summary is inserted as new
C6_Witness ==
    \E c \in Callers :
        /\ settings.summarize /\ call[c].pc = "insert"
        /\ \E k \in DOMAIN call[c].newVectorItems :
              call[c].newVectorItems[k].text # MessageOf(c, call[c].newVectorItems[k]).mes

KindRank(kind) ==
    CASE kind = "list" -> 1 [] kind = "summarize" -> 2 [] kind = "insert" -> 3 [] kind = "delete" -> 4

(* C7: within one call the requests go out in the order list, summarize
   (optional, one per item), insert, delete, one at a time; the list request is
   the first and only one, every insert and delete targets the collection that
   was listed in this call, an insert that is due precedes the delete, and the
   delta rests on the listing of this call, which still is the content of the
   collection when the insert goes out. *)
C7_RequestOrder ==
    \A c \in Callers :
        LET r == call[c].reqs
        IN  /\ call[c].pc \in InTry =>
                  /\ Len(r) >= 1
                  /\ r[1].kind = "list"
                  /\ r[Len(r)].kind = call[c].pc
            /\ call[c].pc \notin InTry => r = << >>
            /\ \A i, j \in DOMAIN r :
                  i < j => /\ KindRank(r[i].kind) <= KindRank(r[j].kind)
                           /\ KindRank(r[i].kind) = KindRank(r[j].kind) => r[i].kind = "summarize"
            /\ \A i \in DOMAIN r :
                  r[i].kind \in {"list", "insert", "delete"} =>
                      r[i].coll = r[1].coll /\ r[i].coll = call[c].chatId
            /\ (call[c].pc = "delete" /\ Len(call[c].newVectorItems) > 0) =>
                  \E i \in DOMAIN r : r[i].kind = "insert"
            /\ call[c].pc \in {"summarize", "insert"} =>
                  call[c].hashesInCollection = remote[call[c].chatId]

\* a call has sent list, summarize, insert and delete
C7_Witness ==
    \E c \in Callers :
        /\ call[c].pc = "delete"
        /\ {call[c].reqs[i].kind : i \in DOMAIN call[c].reqs}
              = {"list", "summarize", "insert", "delete"}

Min(a, b) == IF a < b THEN a ELSE b

\* the texts of the chunks of items that carry the index idx, added up
RECURSIVE TextOfIndex(_, _)
TextOfIndex(items, idx) ==
    IF items = << >> THEN 0
    ELSE (IF Head(items).index = idx THEN Head(items).text ELSE 0)
            + TextOfIndex(Tail(items), idx)

\* payload is the first n elements of newVectorItems cut into chunks: every chunk
\* carries the index and hash of its item and is no longer than the chunk size,
\* the chunks of an item make up its text, and the items keep their order
IsChunkedBatch(payload, newVectorItems, n) ==
    /\ \A i \in DOMAIN payload :
          /\ \E k \in 1..n : /\ payload[i].index = newVectorItems[k].index
                              /\ payload[i].hash = newVectorItems[k].hash
          /\ settings.message_chunk_size > 0 => payload[i].text <= settings.message_chunk_size
    /\ \A k \in 1..n :
          /\ \E i \in DOMAIN payload : payload[i].index = newVectorItems[k].index
          /\ TextOfIndex(payload, newVectorItems[k].index) = newVectorItems[k].text
    /\ \A i, j \in DOMAIN payload : i < j => payload[i].index <= payload[j].index
    /\ settings.message_chunk_size <= 0 => payload = SubSeq(newVectorItems, 1, n)

(* C8: the insert request of a call carries the chunks of the first
   min(batchSize, number of new items) new items in local order, and nothing of
   the items after them; the delete request of the call carries every stale
   hash, whatever batchSize is, and is the only delete request of the call, so
   after a call that ran to its end no stale hash is left in the collection. *)
C8_BatchedInsertFullDelete ==
    LET v == call["vec"]
        r == v.reqs
    IN  /\ v.pc = "insert" =>
              /\ Len(v.newVectorItems) > 0
              /\ IsChunkedBatch(r[Len(r)].items, v.newVectorItems,
                                Min(Len(v.newVectorItems), batchSize))
        /\ v.pc = "delete" =>
              /\ IsFilter(r[Len(r)].hashes, v.hashesInCollection,
                          [i \in DOMAIN v.hashesInCollection |->
                              \A k \in DOMAIN v.hashedMessages :
                                  v.hashedMessages[k].hash # v.hashesInCollection[i]])
              /\ r[Len(r)].hashes # << >>
              /\ Cardinality({i \in DOMAIN r : r[i].kind = "delete"}) = 1
        /\ (loop.pc = "running" /\ v.pc = "returned" /\ v.exit = "ok") =>
              Range(remote[loop.chatId]) \subseteq LocalHashes(chats[loop.chatId])

\* more new items than a batch, cut into more chunks than a batch has items, were
\* inserted and the stale hashes are being deleted
C8_Witness ==
    LET v == call["vec"]
    IN  /\ v.pc = "delete"
        /\ Len(v.newVectorItems) > batchSize
        /\ Len(v.deletedHashes) > 1
        /\ \E i \in DOMAIN v.reqs :
              v.reqs[i].kind = "insert" /\ Len(v.reqs[i].items) > batchSize

\* the number of items of the running call c whose hash the collection did not list
NewItemsFound(c) ==
    LET listed == IF call[c].pc = "list" THEN remote[call[c].chatId]
                                         ELSE call[c].hashesInCollection
    IN  Cardinality({k \in DOMAIN call[c].hashedMessages :
                        call[c].hashedMessages[k].hash \notin Range(listed)})

\* the step in which the call c runs to its end without an error
Completes(c) ==
    call[c].pc \in InTry /\ call'[c].pc = "returned" /\ call'[c].exit = "ok"

(* C9: a call that completes all its steps without error returns the number
   of new items it found minus batchSize, a negative number included. *)
C9_ReturnValue ==
    [][\A c \in Callers :
          Completes(c) => call'[c].result = <<NewItemsFound(c) - batchSize>>]_vars

\* a call has returned a negative number that is not -batchSize
C9_Witness ==
    /\ call["vec"].pc = "returned" /\ call["vec"].exit = "ok"
    /\ call["vec"].result[1] < 0
    /\ call["vec"].result[1] > 0 - batchSize

(* C10, as stated: whenever a call returns a value <= 0 to the vectorize-all
   loop, the remote hash set of the chat collection equals the local one. *)
C10_NonPositiveMeansSynced ==
    (loop.pc = "running" /\ call["vec"].pc = "returned" /\ call["vec"].result[1] <= 0) =>
        Range(remote[loop.chatId]) = LocalHashes(chats[loop.chatId])

(* C10, amended: a call that completes all its steps without error and
   returns a value <= 0 leaves the collection of the chat it read with exactly
   the hashes of that chat's non-system messages; a call that returns -1
   because it was disabled, blocked, without a chat or failed says nothing
   about the collection, although the loop takes it as finished too. *)
C10_CompletedMeansSynced ==
    [][\A c \in Callers :
          (Completes(c) /\ call'[c].result[1] <= 0) =>
              Range(remote'[call[c].chatId]) = LocalHashes(chats[call[c].chatId])]_vars

\* the loop was handed a value <= 0 by a call that ran to its end, and the
\* collection of the chat has the local hashes
C10_Witness ==
    /\ loop.pc = "running" /\ loop.calls = 1
    /\ call["vec"].pc = "returned" /\ call["vec"].exit = "ok"
    /\ call["vec"].result[1] <= 0
    /\ remote[loop.chatId] # << >>
    /\ Range(remote[loop.chatId]) = LocalHashes(chats[loop.chatId])

\* the calls the client made with source 'openai' and no API key stored
KeylessCalls ==
    IF settings.source = "openai" /\ "openai" \notin client.secret_state
    THEN {client.calls[i] : i \in DOMAIN client.calls}
    ELSE {}

FailedStep(c, kind) ==
    call[c].pc = kind /\ call'[c].pc # kind /\ remote' = remote

(* C12: if the insert request of a call fails, the call sends no delete
   request, returns -1 to its caller, the guard is released and the collection
   keeps what it held; if the delete request fails the call returns -1 too,
   the guard is released and the hashes inserted earlier in the call stay. *)
C12_PartialFailure ==
    [][\A c \in Callers :
          /\ FailedStep(c, "insert") =>
                /\ call'[c].pc = "returned" /\ call'[c].exit = "error"
                /\ call'[c].result = <<0 - 1>>
                /\ \A i \in DOMAIN call[c].reqs : call[c].reqs[i].kind # "delete"
                /\ ~syncBlocked'
          /\ FailedStep(c, "delete") =>
                /\ call'[c].pc = "returned" /\ call'[c].exit = "error"
                /\ call'[c].result = <<0 - 1>>
                /\ ~syncBlocked'
                /\ \A i \in DOMAIN call[c].reqs :
                      call[c].reqs[i].kind = "insert" =>
                          \A k \in DOMAIN call[c].reqs[i].items :
                              call[c].reqs[i].items[k].hash \in Range(remote'[call[c].chatId])]_vars

\* a call ended in an error after its insert was applied: the new hash is in the
\* collection next to the stale one that the failed delete left there
C12_Witness ==
    /\ \E c \in Callers : call[c].pc = "returned" /\ call[c].exit = "error"
    /\ ~syncBlocked
    /\ {StaleHash, getStringHash(2)} \subseteq Range(remote["chatA"])

(* C19: the vectorize-all loop issues a synchronizeChat call only when its
   previous one has returned, and when at the return of a call generation is in
   progress or the current chat is not the chat of the loop start, the loop
   ends there: no further call is issued and the progress indicator is hidden. *)
C19_LoopAborts ==
    [][/\ loop'.calls > loop.calls =>
             /\ call["vec"].pc \in {"idle", "returned"}
             /\ loop'.calls = loop.calls + 1 \/ loop.pc = "idle"
       /\ (/\ loop.pc = "running" /\ call["vec"].pc = "returned"
           /\ call'["vec"] # call["vec"]
           /\ is_send_press \/ currentChatId # loop.chatId) =>
             /\ loop'.pc = "idle" /\ ~loop'.progress
             /\ call'["vec"].pc = "idle"]_vars

\* the loop ended on a running generation although the last call left items
C19_Witness ==
    /\ loop.pc = "idle" /\ ~loop.progress
    /\ loop.error = "Message generation is in progress."
    /\ call["vec"].pc = "idle"
    /\ Len(NewVectorItems(HashedMessages(chats["chatA"]), remote["chatA"])) > 0
    /\ Len(remote["chatA"]) >= batchSize

(* C13: for a chat array of length L and protect = p <= L, the last p
   messages of the array are, at every point of rearrangeChat and after it, the
   last p messages that were handed over, in their order, whatever hashes the
   query answers with. *)
C13_ProtectFloor ==
    (rc.pc # "idle" /\ settings.protect <= Len(rc.input)) =>
        /\ Len(rc.chat) >= settings.protect
        /\ SubSeq(rc.chat, Len(rc.chat) - settings.protect + 1, Len(rc.chat))
              = SubSeq(rc.input, Len(rc.input) - settings.protect + 1, Len(rc.input))

\* messages were extracted although the query also named the hash of a protected one
C13_Witness ==
    /\ rc.pc = "done" /\ settings.protect >= 1
    /\ Len(rc.queriedMessages) > 0
    /\ Includes(rc.queryHashes, getStringHash(rc.input[Len(rc.input)].mes))

\* the relevance rank of a text: the position of its hash in the query hashes
Rank(mes) == IndexOf(rc.queryHashes, getStringHash(mes))

\* the block of the chat-memory slot
ChatBlock == extension_prompts["3_vectors"].text

(* C14, as stated: the extracted messages stand in the injected block most
   relevant first (ascending position of their hash in the query result). *)
C14_MostRelevantFirst ==
    (rc.pc = "done" /\ Len(rc.queriedMessages) > 0) =>
        \A i, j \in DOMAIN ChatBlock :
            i < j => Rank(ChatBlock[i].mes) < Rank(ChatBlock[j].mes)

(* C14, amended: the extracted messages stand in the injected block in
   ascending relevance, the most relevant one last: the positions of their
   hashes in the query result decrease along the block, and the block holds
   one "name: text" per extracted message. *)
C14_MostRelevantLast ==
    (rc.pc = "done" /\ Len(rc.queriedMessages) > 0) =>
        /\ Len(ChatBlock) = Len(rc.queriedMessages)
        /\ \A i \in DOMAIN ChatBlock :
              /\ ChatBlock[i].mes = rc.queriedMessages[i].mes
              /\ ChatBlock[i].name = rc.queriedMessages[i].name
              /\ Rank(ChatBlock[i].mes) >= 1
        /\ \A i, j \in DOMAIN ChatBlock :
              i < j => Rank(ChatBlock[i].mes) > Rank(ChatBlock[j].mes)

\* two messages were extracted
C14_Witness ==
    rc.pc = "done" /\ Len(rc.queriedMessages) = 2 /\ Len(ChatBlock) = 2

(* C15: after rearrangeChat no message of the injected block is left in the
   chat array, also when extracted messages are neighbours in the array. *)
C15_ExtractedAreRemoved ==
    rc.pc = "done" =>
        \A k \in DOMAIN rc.queriedMessages : ~Includes(rc.chat, rc.queriedMessages[k])

\* the block of the Data Bank slot
DataBankBlock == extension_prompts["4_vectors_data_bank"].text

\* how often the text t stands in the Data Bank block
Occurrences(t) == Cardinality({i \in DOMAIN DataBankBlock : DataBankBlock[i] = t})

\* the collections of the answer that returned the text t
ReturnedBy(t) ==
    {i \in DOMAIN rc.queryResults :
        \E k \in DOMAIN rc.queryResults[i].metadata : rc.queryResults[i].metadata[k].text = t}

(* C16, as stated: a text returned by two collections stands once in the
   injected Data Bank block. *)
C16_UniqueAcrossCollections ==
    rc.queryResults # << >> => \A t \in {"x", "y"} : Occurrences(t) <= 1

(* C16, amended: the texts are made unique within each collection only: a
   text stands in the block once for every collection that returned it. *)
C16_UniquePerCollection ==
    rc.queryResults # << >> =>
        \A t \in {"x", "y"} : Occurrences(t) = Cardinality(ReturnedBy(t))

\* a collection returned a text twice and another one returned it too
C16_Witness ==
    /\ Cardinality(ReturnedBy("x")) = 2
    /\ \E i \in ReturnedBy("x") :
          Cardinality({k \in DOMAIN rc.queryResults[i].metadata :
                          rc.queryResults[i].metadata[k].text = "x"}) = 2
    /\ Occurrences("x") = 2

\* a prompt slot holds the empty string
IsCleared(tag) ==
    extension_prompts[tag].template = "" /\ Len(extension_prompts[tag].text) = 0

(* C17: when no message was extracted the chat-memory slot is empty after
   rearrangeChat, and when no collection of the Data Bank answer yields a text
   the Data Bank slot is empty. *)
C17_SlotStaysCleared ==
    rc.pc = "done" =>
        /\ Len(rc.queriedMessages) = 0 => IsCleared("3_vectors")
        /\ (\A t \in {"x", "y"} : ReturnedBy(t) = {}) => IsCleared("4_vectors_data_bank")

(* C18: when the query text of the chat is empty no query and no query-multi
   request is sent and both slots stay empty. *)
C18_EmptyQueryNoOp ==
    /\ \A i \in DOMAIN rc.reqs :
          rc.reqs[i].kind \in {"query", "query-multi"} => Len(rc.reqs[i].searchText) > 0
    /\ (rc.pc # "idle" /\ Len(getQueryText(rc.input, FALSE)) = 0
                       /\ Len(getQueryText(rc.input, TRUE)) = 0) =>
          IsCleared("3_vectors") /\ IsCleared("4_vectors_data_bank")

\* the files of the list that the loop of the bulk operation has reached
BulkAllAttempted == bulk.attempted = bulk.allFiles

\* C20 as stated: when the bulk operation ends every file of the list was attempted,
\* and the report is 'some files failed' exactly when a file failed, whether its
\* download, its listing or its vectorization
C20_NoFailureStopsTheRest ==
    bulk.pc = "done" =>
        /\ BulkAllAttempted
        /\ bulk.toast = "warning" <=> (bulk.failed # {} \/ bulk.error # "")

\* C20: a file whose vectorizeFile fails does not stop the operation; when no download
\* and no listing failed, every file of the list was attempted and the report is
\* 'some files failed' exactly when a vectorizeFile returned false, 'all files
\* vectorized' otherwise.  A failed download or listing ends the operation at that
\* file with 'Failed to vectorize all files'.
C20_VectorizeFailuresAreCollected ==
    /\ bulk.failed \subseteq 1..Len(bulk.attempted)
    /\ bulk.pc = "file" => bulk.error = "" /\ bulk.idx = Len(bulk.attempted)
    /\ bulk.pc = "done" =>
        /\ bulk.toast = "error" <=> bulk.error # ""
        /\ bulk.error = "" =>
              /\ BulkAllAttempted
              /\ bulk.toast = "warning" <=> bulk.failed # {}
              /\ bulk.toast = "success" <=> bulk.failed = {}

\* a file failed to vectorize, the files after it were vectorized, and the report
\* is 'some files failed'
C20_Witness ==
    /\ bulk.pc = "done"
    /\ Len(bulk.allFiles) = 3
    /\ bulk.failed = {1}
    /\ BulkAllAttempted
    /\ collections["file_2"] # << >>
    /\ bulk.toast = "warning"

\* the requests of kind `kind` in reqs that name the collection coll
RequestsOf(reqs, kind, coll) ==
    {k \in DOMAIN reqs : reqs[k].kind = kind /\ Includes(reqs[k].coll, coll)}

FileCollections == {"file_1", "file_2"}

\* C21: ingestDataBankAttachments and processFiles send an insert for a file's
\* collection only right after listing it and only when the store holds nothing for
\* it at that moment, so a file ingested by an earlier generation is not inserted
\* again; and every query of a file collection comes after a listing of it
C21_IngestionIsLazy ==
    [][/\ \A k \in (Len(rc.reqs) + 1)..Len(rc'.reqs) :
              \A coll \in FileCollections :
                  k \in RequestsOf(rc'.reqs, "insert", coll) =>
                      /\ collections[coll] = << >>
                      /\ k - 1 \in RequestsOf(rc'.reqs, "list", coll)
       /\ \A coll \in FileCollections :
              \A k \in RequestsOf(rc'.reqs, "query", coll) \cup RequestsOf(rc'.reqs, "query-multi", coll) :
                  \E j \in RequestsOf(rc'.reqs, "list", coll) : j < k
      ]_vars

\* a later generation: both files were ingested by an earlier one (the store holds
\* their chunks), they were listed and queried again, and nothing was inserted
C21_Witness ==
    /\ rc.pc = "done"
    /\ \A coll \in FileCollections :
          /\ collections[coll] # << >>
          /\ RequestsOf(rc.reqs, "list", coll) # {}
          /\ RequestsOf(rc.reqs, "insert", coll) = {}
          /\ RequestsOf(rc.reqs, "query", coll) \cup RequestsOf(rc.reqs, "query-multi", coll) # {}

\* the kinds of the requests in rc.reqs that name a collection of the set colls
KindsAgainst(colls) ==
    {rc.reqs[k].kind : k \in {j \in DOMAIN rc.reqs : Range(rc.reqs[j].coll) \cap colls # {}}}

WorldCollections == {"world_1", "world_2"}

\* C22 as stated: rearrangeChat and what it calls send list and query requests only
C22_InjectorOnlyReads ==
    \A k \in DOMAIN rc.reqs : rc.reqs[k].kind \in {"list", "query", "query-multi"}

\* C22: rearrangeChat and what it calls only query the collection of the chat; they
\* do write the other collections: a file collection is listed, inserted into and
\* queried (never deleted from), a world collection is listed, inserted into,
\* deleted from and queried
C22_InjectorNeverWritesTheChat ==
    /\ KindsAgainst(ChatIds) \subseteq {"query"}
    /\ KindsAgainst(FileCollections) \subseteq {"list", "insert", "query", "query-multi"}
    /\ KindsAgainst(WorldCollections) \subseteq {"list", "insert", "delete", "query-multi"}
    /\ remote = [id \in ChatIds |-> << >>]

\* one generation inserted into a file collection, inserted into and deleted from
\* a world collection, and queried the collection of the chat
C22_Witness ==
    /\ rc.pc = "done"
    /\ "insert" \in KindsAgainst(FileCollections)
    /\ {"insert", "delete"} \subseteq KindsAgainst(WorldCollections)
    /\ KindsAgainst(ChatIds) = {"query"}

\* the collections named by the list, insert and delete requests the call of the
\* vectorize-all loop has sent
VecTargets ==
    {call["vec"].reqs[k].coll :
        k \in {j \in DOMAIN call["vec"].reqs :
                  call["vec"].reqs[j].kind \in {"list", "insert", "delete"}}}

\* C23 as stated: during a vectorize-all run every request names the chat that was
\* current when the run started
C23_RunTargetsItsChat ==
    loop.pc = "running" => VecTargets \subseteq {loop.chatId}

\* C23: every request of one synchronizeChat call names the chat that was current
\* when that call passed its wait and took the guard, whatever the user switches
\* to afterwards; that chat need not be the one the run started on
C23_CallTargetsItsChat ==
    /\ VecTargets \subseteq {call["vec"].chatId}
    /\ call["vec"].chatId # NoChat => call["vec"].chatId \in ChatIds
    /\ call["vec"].pc \in InTry => call["vec"].chatId # NoChat

\* the user switched chats while the call of a run started on chatA was waiting:
\* the call lists and inserts into the collection of chatB
C23_Witness ==
    /\ loop.pc = "running"
    /\ loop.chatId = "chatA"
    /\ call["vec"].pc = "insert"
    /\ VecTargets = {"chatB"}

\* the call of caller c returns in this step without having taken the guard: chat
\* vectorization is disabled (line 227) or its wait timed out (line 234)
ReturnsUnacquired(c) ==
    /\ call'[c] # call[c]
    /\ call'[c].pc = "returned"
    /\ call'[c].exit \in {"disabled", "blocked"}

\* C24: a synchronizeChat call that returns because chat vectorization is disabled
\* or because its wait timed out leaves syncBlocked as it was, so the guard of the
\* call in flight stays held
C24_UnacquiredReturnKeepsGuard ==
    [][\A c \in Callers : ReturnsUnacquired(c) => syncBlocked' = syncBlocked]_vars

\* the wait of the worker's call timed out while the call of the vectorize-all loop
\* is between its requests and holds the guard
C24_Witness ==
    /\ call["worker"].pc = "returned"
    /\ call["worker"].exit = "blocked"
    /\ call["vec"].pc \in InTry
    /\ syncBlocked

\* C25: every entry that activateWorldInfo force-activates has a world, is not
\* disabled, has content, and is marked vectorized unless enabled_for_all is set
C25_ActivatedAreEligible ==
    \A i \in DOMAIN rc.activated : Vectorizable(rc.activated[i])

\* the non-empty texts of the chat array, the most recent first
RecentTexts(chat) ==
    LET texts == SelectSeq([i \in DOMAIN chat |-> chat[i].mes], LAMBDA t : t # 0)
    IN  [i \in DOMAIN texts |-> texts[Len(texts) + 1 - i]]

\* C26: the text of every query of the chat collection is made of the
\* settings.query most recent non-empty messages of the chat (of all of them when
\* there are fewer), the most recent first, whatever settings.query is
C26_QueryTextIsBounded ==
    \A k \in DOMAIN rc.reqs :
        rc.reqs[k].kind = "query" =>
            /\ Len(rc.reqs[k].searchText) <= settings.query
            /\ rc.reqs[k].searchText = Slice(RecentTexts(rc.input), settings.query)

\* the router has handled a request to /import that carried a body and a file
ImportHandled ==
    /\ http.pc = "handled"
    /\ http.request.route = "import"
    /\ http.request.hasBody /\ http.request.hasFile

\* C27: for a CAI Tools export importCAIChat returns one chat per history, the
\* header line followed by one line per message in order, and /import writes the
\* chats and answers {res: true}
C27_CaiImportWritesEveryHistory ==
    (/\ ImportHandled
     /\ http.request.file_type = "json"
     /\ "histories" \in DOMAIN http.request.upload.json) =>
        LET req == http.request
            userName == IF req.user_name = "" THEN "You" ELSE req.user_name
            histories == Histories(req.upload.json)
            expected == [i \in DOMAIN histories |->
                            convert(userName, req.character_name, histories[i])]
            cai == importCAIChat(userName, req.character_name, req.upload.json)
        IN  /\ ~cai.threw
            /\ cai.chats = expected
            /\ http.responses = <<SendRes>>
            /\ histories # << >> => files[ImportedName] = FileOf(expected[Len(expected)])

\* C28: when the handler of /import has returned, exactly one response was sent,
\* whatever file_type and the file are
C28_ImportAnswersOnce ==
    ImportHandled => Len(http.responses) = 1

\* the request in hand is a rename that names two files
RenameHandled ==
    /\ http.pc = "handled"
    /\ http.request.route = "rename"
    /\ http.request.original_file # "" /\ http.request.renamed_file # ""

\* C29: /rename answers 400 and changes no file when the original is missing or the
\* destination exists; otherwise it answers ok, the destination holds what the
\* original held and the original is gone; in both cases every other file is as it was
C29_RenameNeverOverwrites ==
    [][(http.pc = "rename" /\ RenameHandled') =>
          LET original == http.request.original_file
              renamed  == http.request.renamed_file
          IN  IF ~files[original].exists \/ files[renamed].exists
              THEN /\ http'.responses = <<SendError(400)>>
                   /\ files' = files
              ELSE /\ http'.responses = <<SendOk>>
                   /\ files'[renamed] = files[original]
                   /\ ~files'[original].exists
                   /\ \A name \in FileNames \ {original, renamed} : files'[name] = files[name]
      ]_vars

\* a rename onto an existing chat was refused with 400 and both chats are there
C29_Witness ==
    /\ RenameHandled
    /\ http.request.original_file # http.request.renamed_file
    /\ http.responses = <<SendError(400)>>
    /\ files[http.request.original_file].exists
    /\ files[http.request.renamed_file].exists
    /\ files[http.request.original_file] # files[http.request.renamed_file]

\* autoSelectInstructPreset has been called
AutoSelectCalled == power_user.result # << >>

\* the preset the first matching activation regex belongs to, selected by it
FirstRegexSelection ==
    LET matching == RegexMatching(power_user, power_user.modelId)
        first == CHOOSE i \in matching : \A j \in 1..(i - 1) : j \notin matching
    IN  <<[name |-> power_user.presets[first].name, by |-> "regex"]>>

\* C30 as stated: true is returned exactly when a preset was selected by its
\* activation regex; with the instruct mode disabled nothing is selected; and when
\* the regexes of several presets match the model id the first of them in list
\* order, and no other, is selected
C30_FirstRegexMatchIsSelected ==
    AutoSelectCalled =>
        /\ power_user.result = <<TRUE>> <=>
              \E k \in DOMAIN power_user.selected : power_user.selected[k].by = "regex"
        /\ ~power_user.instruct.enabled =>
              power_user.result = <<FALSE>> /\ power_user.selected = << >>
        /\ (power_user.instruct.enabled
              /\ Cardinality(RegexMatching(power_user, power_user.modelId)) > 1) =>
              [k \in DOMAIN power_user.selected |-> power_user.selected[k].name]
                  = <<FirstRegexSelection[1].name>>

\* C30: true is returned exactly when a preset was selected by its activation
\* regex; with the instruct mode disabled nothing is selected; a preset named like
\* the context template, when presets are bound to it, is selected before any regex
\* is looked at and false is returned; otherwise, when the regexes of one or more
\* presets match the model id, the first of them in list order, and no other, is
\* selected
C30_ContextBindingComesFirst ==
    AutoSelectCalled =>
        /\ power_user.result = <<TRUE>> <=>
              \E k \in DOMAIN power_user.selected : power_user.selected[k].by = "regex"
        /\ ~power_user.instruct.enabled =>
              /\ power_user.result = <<FALSE>> /\ power_user.selected = << >>
              /\ power_user.instruct.preset = power_user.before
        /\ (power_user.instruct.enabled /\ ContextMatches(power_user) # {}) =>
              /\ power_user.result = <<FALSE>>
              /\ power_user.selected = <<[name |-> power_user.context.preset, by |-> "context"]>>
        /\ (power_user.instruct.enabled /\ ContextMatches(power_user) = {}
              /\ RegexMatching(power_user, power_user.modelId) # {}) =>
              /\ power_user.selected = FirstRegexSelection
              /\ power_user.instruct.preset = FirstRegexSelection[1].name
        /\ Len(power_user.selected) <= 1

\* the regexes of three presets were given and two match the model id; the first
\* of the two was selected and true was returned
C30_Witness ==
    /\ AutoSelectCalled
    /\ power_user.result = <<TRUE>>
    /\ Cardinality(RegexMatching(power_user, power_user.modelId)) = 2
    /\ power_user.selected = FirstRegexSelection
    /\ FirstRegexSelection[1].name # power_user.presets[1].name

====
